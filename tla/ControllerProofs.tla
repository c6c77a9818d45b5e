-------------------------- MODULE ControllerProofs --------------------------
(***************************************************************************)
(* Run and the command around it, for any number of requests, any          *)
(* scenarios, beliefs and settings, and any answers; then the controller   *)
(* and its worker together, for any number of restarts, timeouts and lost  *)
(* answers.                                                                *)
(***************************************************************************)
EXTENDS KVControl, System, Bench, SchedulerProofs, FiniteSetTheorems, SequenceTheorems

-----------------------------------------------------------------------------
(* What Run can decide. *)

LEMMA AppendToShort ==
    ASSUME NEW a, NEW b PROVE Append(<<>>, a) = <<a>> /\ Append(<<a>>, b) = <<a, b>>
<1> DEFINE S == {a, b}
<1>1. <<>> \in Seq(S) /\ <<a>> \in Seq(S) /\ <<a, b>> \in Seq(S) /\ a \in S /\ b \in S
  OBVIOUS
<1>2. Len(<<>>) = 0 /\ Len(<<a>>) = 1 /\ Len(<<a, b>>) = 2
  OBVIOUS
<1> HIDE DEF S
<1>3. /\ Append(<<>>, a) \in Seq(S) /\ Len(Append(<<>>, a)) = 1
      /\ Append(<<>>, a)[1] = a
  BY <1>1, <1>2, AppendProperties
<1>4. /\ Append(<<a>>, b) \in Seq(S) /\ Len(Append(<<a>>, b)) = 2
      /\ Append(<<a>>, b)[1] = a /\ Append(<<a>>, b)[2] = b
  BY <1>1, <1>2, AppendProperties
<1>5. Append(<<>>, a) = <<a>>
  BY <1>1, <1>2, <1>3, SeqEqual
<1>6. Append(<<a>>, b) = <<a, b>>
  <2>1. \A i \in 1..2 : Append(<<a>>, b)[i] = <<a, b>>[i]
    BY <1>4
  <2> QED BY <1>1, <1>2, <1>4, <2>1, SeqEqual
<1> QED BY <1>5, <1>6

(* bestWithoutTransfer leaves two candidates and takes one of them.        *)
LEMMA BestWithoutTransferIsOther ==
    ASSUME NEW in PROVE BestWithoutTransfer(Estimate(in)) \in {"wait", "recompute"}
<1>1. PICK w, t, r : /\ Estimate(in) = <<w, t, r>>
                     /\ w.action = "wait" /\ t.action = "transfer" /\ r.action = "recompute"
  BY EstimateIsThree
<1> DEFINE s == <<w, t, r>>
           Kept(f) == [i \in 0..Len(s) |->
                IF i = 0 THEN <<>>
                ELSE IF s[i].action # "transfer" THEN Append(f[i - 1], s[i]) ELSE f[i - 1]]
           others == CHOOSE f : f = Kept(f)
           values == [i \in 0..3 |-> CASE i = 0 -> <<>> [] i \in {1, 2} -> <<w>> [] i = 3 -> <<w, r>>]
<1>2. Len(s) = 3 /\ s[1] = w /\ s[2] = t /\ s[3] = r
  OBVIOUS
<1>3. values = Kept(values)
  <2>1. Append(<<>>, w) = <<w>> /\ Append(<<w>>, r) = <<w, r>>
    BY AppendToShort
  <2> HIDE DEF s
  <2> QED BY <1>1, <1>2, <2>1
<1>4. others = Kept(others)
  BY <1>3, Zenon
<1>5. others[3] = <<w, r>>
  <2> HIDE DEF others, s
  <2>1. others[0] = <<>>
    BY <1>2, <1>4
  <2>2. others[1] = <<w>>
    <3>0. 1 \in 0..Len(s) /\ 1 # 0 /\ 1 - 1 = 0 /\ s[1].action # "transfer"
      BY <1>1, <1>2
    <3>1. others[1] = Append(others[0], s[1])
      BY <1>4, <3>0, Zenon
    <3>2. others[1] = Append(<<>>, w)
      BY <1>2, <2>1, <3>1, Zenon
    <3> QED BY <3>2, AppendToShort
  <2>3. others[2] = <<w>>
    BY <1>1, <1>2, <1>4, <2>2
  <2>4. others[3] = Append(<<w>>, r)
    BY <1>1, <1>2, <1>4, <2>3
  <2> QED BY <2>4, AppendToShort
<1>6. BestWithoutTransfer(s) = ChooseLowestTTFT(others[Len(s)]).action
  BY Zenon DEF BestWithoutTransfer
<1> HIDE DEF s, others
<1>7. BestWithoutTransfer(s) = First(w, r).action
  BY <1>2, <1>5, <1>6, LowestOfTwo
<1> QED BY <1>1, <1>7 DEF First, s

LEMMA DecideFacts ==
    ASSUME NEW in
    PROVE  LET choice == ChooseLowestTTFT(Estimate(in)).action
               action == Decide(Estimate(in))
           IN  /\ choice \in Actions /\ action \in Actions
               /\ ProbeDue => action = "transfer"
               /\ ~ProbeDue /\ down => action # "transfer"
               /\ ~ProbeDue /\ action # choice => down /\ choice = "transfer"
BY ChoiceIsAction, BestWithoutTransferIsOther DEF Decide, Actions

-----------------------------------------------------------------------------
(* The invariant. *)

Last == Len(results)

(* sinceTransfer counts back to the last request that tried.               *)
CountInv ==
    pc # "returned" =>
        /\ sinceTransfer <= Last
        /\ \A l \in Last - sinceTransfer + 1..Last : ~Tried(results[l])
        /\ sinceTransfer < Last => Tried(results[Last - sinceTransfer])

(* down says how that one ended. *)
DownInv ==
    pc = "wait" => (down <=> sinceTransfer < Last /\ Failed(results[Last - sinceTransfer]))

(* A request in its call is the last one, and has no outcome yet.          *)
CallInv ==
    pc = "call" => /\ Last > 0 /\ sinceTransfer = 0 /\ results[Last].err = "none"

StartInv ==
    /\ pc = "start" => results = <<>> /\ learned = <<>> /\ sinceTransfer = 0 /\ down = FALSE
    /\ pc # "returned" => err = "none"

Decisions == RetriesAreSpaced /\ BeliefIsProbed /\ DivergenceIsExplained

IInv == /\ TypeOK /\ StartInv /\ CountInv /\ DownInv /\ CallInv
        /\ Decisions /\ LearnsFromSuccesses

LEMMA KIsInt == TypeOK => K \in Int
BY ConfigsAssumption DEF TypeOK, K

LEMMA SuccessesOfNone == ASSUME NEW rs PROVE Successes(rs, 0) = 0
<1>1. {i \in 1..0 : Succeeded(rs[i])} = {}
  OBVIOUS
<1> QED BY <1>1, FS_EmptySet DEF Successes

LEMMA SuccessesAgree ==
    ASSUME NEW rs, NEW qs, NEW j, \A i \in 1..j : Succeeded(rs[i]) <=> Succeeded(qs[i])
    PROVE  Successes(rs, j) = Successes(qs, j)
<1>1. {i \in 1..j : Succeeded(rs[i])} = {i \in 1..j : Succeeded(qs[i])}
  OBVIOUS
<1> QED BY <1>1 DEF Successes

LEMMA SuccessesNext ==
    ASSUME NEW rs, NEW j \in Nat
    PROVE  /\ Successes(rs, j) \in 0..j
           /\ Successes(rs, j + 1) = IF Succeeded(rs[j + 1]) THEN Successes(rs, j) + 1
                                    ELSE Successes(rs, j)
<1> DEFINE S(k) == {i \in 1..k : Succeeded(rs[i])}
<1>1. IsFiniteSet(S(j)) /\ Cardinality(S(j)) \in 0..j
  <2>1. IsFiniteSet(1..j) /\ Cardinality(1..j) = j
    BY FS_Interval
  <2>2. S(j) \in SUBSET (1..j)
    OBVIOUS
  <2> HIDE DEF S
  <2>3. IsFiniteSet(S(j)) /\ Cardinality(S(j)) <= j
    BY <2>1, <2>2, FS_Subset
  <2> QED BY <2>3, FS_CardinalityType
<1>2. S(j + 1) = IF Succeeded(rs[j + 1]) THEN S(j) \cup {j + 1} ELSE S(j)
  OBVIOUS
<1>3. j + 1 \notin S(j)
  OBVIOUS
<1> HIDE DEF S
<1>4. Cardinality(S(j + 1)) = IF Succeeded(rs[j + 1]) THEN Cardinality(S(j)) + 1
                              ELSE Cardinality(S(j))
  BY <1>1, <1>2, <1>3, FS_AddElement
<1> QED BY <1>1, <1>4 DEF Successes, S

LEMMA SuccessesGrow ==
    ASSUME NEW rs, NEW n \in Nat, NEW j \in 1..n, Succeeded(rs[j])
    PROVE  Successes(rs, j) \in 1..Successes(rs, n)
<1> DEFINE S(k) == {i \in 1..k : Succeeded(rs[i])}
<1>1. IsFiniteSet(S(n)) /\ S(j) \in SUBSET S(n) /\ j \in S(j)
  <2>1. IsFiniteSet(1..n) /\ S(n) \in SUBSET (1..n)
    BY FS_Interval
  <2>2. IsFiniteSet(S(n))
    BY <2>1, FS_Subset
  <2> QED BY <2>2
<1> HIDE DEF S
<1>2. IsFiniteSet(S(j)) /\ Cardinality(S(j)) <= Cardinality(S(n))
  BY <1>1, FS_Subset
<1>3. Cardinality(S(j)) # 0
  BY <1>1, <1>2, FS_EmptySet
<1> QED BY <1>1, <1>2, <1>3, FS_CardinalityType DEF Successes, S

LEMMA InitIInv == Init => IInv
<1> SUFFICES ASSUME Init PROVE IInv
  OBVIOUS
<1>1. TypeOK
  <2>1. /\ results = <<>> /\ Len(results) = 0 /\ results \in Seq(Result)
        /\ learned \in Seq([bytes : Int, seconds : Times])
    BY DEF Init
  <2>2. ctxEnded \in BOOLEAN /\ down \in BOOLEAN
    BY Zenon DEF Init
  <2> QED BY <2>1, <2>2, NAssumption DEF Init, TypeOK, Errors
<1>2. StartInv /\ CountInv /\ DownInv /\ CallInv /\ Decisions
  BY DEF Init, StartInv, CountInv, DownInv, CallInv, Last, Decisions, RetriesAreSpaced,
         BeliefIsProbed, DivergenceIsExplained
<1>3. LearnsFromSuccesses
  BY SuccessesOfNone DEF Init, LearnsFromSuccesses, Finished
<1> QED BY <1>1, <1>2, <1>3 DEF IInv

-----------------------------------------------------------------------------
(* A request decided: one more result, which its call may still complete.  *)

LEMMA SubSeqOfAppend ==
    ASSUME NEW S, NEW rs \in Seq(S), NEW e \in S
    PROVE  SubSeq(Append(rs, e), 1, Len(rs)) = rs
<1>1. Len(rs) \in Nat /\ Len(Append(rs, e)) = Len(rs) + 1 /\ Append(rs, e) \in Seq(S)
      /\ \A i \in 1..Len(rs) : Append(rs, e)[i] = rs[i] /\ Append(rs, e)[i] \in S
  BY AppendProperties, LenProperties
<1>2. /\ SubSeq(Append(rs, e), 1, Len(rs)) \in Seq(S)
      /\ Len(SubSeq(Append(rs, e), 1, Len(rs))) = Len(rs)
      /\ \A i \in 1..Len(rs) : SubSeq(Append(rs, e), 1, Len(rs))[i] = rs[i]
  BY <1>1, SubSeqProperties
<1> QED BY <1>1, <1>2, SeqEqual

LEMMA RequestIInv == ASSUME IInv, NEW s \in Scenarios, Request(s) PROVE IInv'
<1>0. /\ TypeOK /\ pc = "wait" /\ Len(results) < N /\ K \in Int /\ Last \in Nat
      /\ err = "none" /\ DOMAIN results = 1..Last
      /\ UNCHANGED <<cfg, ctxEnded, belief, down, err, learned>>
  BY KIsInt DEF IInv, StartInv, Request, TypeOK, Last, MoreRequests
<1>1. PICK choice \in Actions, action \in Actions :
        /\ results' = Append(results, [believed |-> choice, action |-> action,
                          bytes |-> PrefixBytes(s), seconds |-> 0, err |-> "none"])
        /\ LET calls == action = "transfer" /\ PrefixBytes(s) > 0
           IN  /\ sinceTransfer' = IF calls THEN 0 ELSE sinceTransfer + 1
               /\ pc' = IF calls THEN "call" ELSE "wait"
        /\ ProbeDue => action = "transfer"
        /\ ~ProbeDue /\ down => action # "transfer"
        /\ ~ProbeDue /\ action # choice => down /\ choice = "transfer"
  BY DecideFacts DEF Request
<1>a. PICK n \in Nat : n = Last
  BY <1>0
<1> DEFINE new == [believed |-> choice, action |-> action,
                   bytes |-> PrefixBytes(s), seconds |-> 0, err |-> "none"]
           calls == action = "transfer" /\ PrefixBytes(s) > 0
<1>2. new \in Result
  BY <1>0, ScenariosAssumption DEF Result, PrefixBytes
<1>3. /\ results' \in Seq(Result) /\ Len(results') = n + 1 /\ DOMAIN results' = 1..n + 1
      /\ results'[n + 1] = new /\ \A j \in 1..n : results'[j] = results[j]
  BY <1>0, <1>1, <1>2, <1>a, AppendProperties, LenProperties DEF TypeOK, Last
<1>4. /\ n \in Nat /\ Last = n /\ Last' = n + 1
      /\ \A j \in 1..n : /\ Tried(results'[j]) <=> Tried(results[j])
                         /\ Failed(results'[j]) <=> Failed(results[j])
      /\ Tried(results'[n + 1]) <=> calls
      /\ ~Failed(results'[n + 1])
  BY <1>0, <1>3, <1>a DEF Tried, Failed, Last
<1>5. TypeOK'
  <2>1. ctxEnded' \in BOOLEAN /\ down' \in BOOLEAN
    BY <1>0, Zenon DEF TypeOK
  <2> QED BY <1>0, <1>1, <1>3, <1>a, <2>1, NAssumption DEF TypeOK, Last
<1>6. StartInv' /\ DownInv' /\ CountInv' /\ CallInv'
  <2>1. /\ sinceTransfer \in Nat /\ sinceTransfer <= n
        /\ \A l \in n - sinceTransfer + 1..n : ~Tried(results[l])
        /\ sinceTransfer < n => Tried(results[n - sinceTransfer])
        /\ down <=> sinceTransfer < n /\ Failed(results[n - sinceTransfer])
    BY <1>0, <1>4 DEF IInv, CountInv, DownInv, TypeOK
  <2>2. StartInv'
    BY <1>0, <1>1 DEF StartInv
  <2>3. CASE calls
    <3>1. sinceTransfer' = 0 /\ pc' = "call"
      BY <1>1, <2>3
    <3> QED BY <1>3, <1>4, <2>2, <2>3, <3>1 DEF DownInv, CountInv, CallInv
  <2>4. CASE ~calls
    <3>1. sinceTransfer' = sinceTransfer + 1 /\ pc' = "wait"
      BY <1>1, <2>4
    <3>2. CountInv'
      BY <1>4, <2>1, <2>4, <3>1 DEF CountInv
    <3>3. DownInv'
      BY <1>0, <1>4, <2>1, <2>4, <3>1 DEF DownInv
    <3> QED BY <2>2, <3>1, <3>2, <3>3 DEF CallInv
  <2> QED BY <2>3, <2>4
<1>7. Decisions'
  <2>1. /\ sinceTransfer \in Nat /\ sinceTransfer <= n
        /\ \A l \in n - sinceTransfer + 1..n : ~Tried(results[l])
        /\ sinceTransfer < n => Tried(results[n - sinceTransfer])
        /\ down <=> sinceTransfer < n /\ Failed(results[n - sinceTransfer])
        /\ ProbeDue <=> K > 0 /\ sinceTransfer >= K
    BY <1>0, <1>4 DEF IInv, CountInv, DownInv, TypeOK, ProbeDue
  <2>2. K' = K
    BY <1>0 DEF K
  <2>3. \A i \in 1..n : (LastTry(i, n + 1))' => i = n - sinceTransfer
    <3> SUFFICES ASSUME NEW i \in 1..n, (LastTry(i, n + 1))' PROVE i = n - sinceTransfer
      OBVIOUS
    <3>1. Tried(results'[i]) /\ \A l \in i + 1..n : ~Tried(results'[l])
      <4>1. (n + 1) - 1 = n
        BY <1>4
      <4> QED BY <4>1 DEF LastTry
    <3>2. Tried(results[i]) /\ \A l \in i + 1..n : ~Tried(results[l])
      BY <3>1, <1>4
    <3> QED BY <2>1, <3>2, <1>4
  <2>4. \A i, j \in 1..n : (LastTry(i, j))' <=> LastTry(i, j)
    BY <1>4 DEF LastTry
  <2>5. RetriesAreSpaced'
    <3> SUFFICES ASSUME NEW i \in 1..n + 1, NEW j \in 1..n + 1,
                        (LastTry(i, j))', Tried(results'[j]), Failed(results'[i])
                 PROVE  K > 0 /\ j - i > K
      BY <1>3, <2>2 DEF RetriesAreSpaced
    <3>1. i < j /\ i \in 1..n
      BY <1>4 DEF LastTry
    <3>2. CASE j = n + 1
      <4>1. i = n - sinceTransfer /\ action = "transfer"
        BY <1>4, <2>3, <3>1, <3>2
      <4>2. sinceTransfer < n /\ Failed(results[n - sinceTransfer])
        BY <1>4, <2>1, <3>1, <4>1
      <4>3. ProbeDue
        BY <1>1, <2>1, <4>1, <4>2, Zenon
      <4> QED BY <1>0, <1>4, <2>1, <3>2, <4>1, <4>3
    <3>3. CASE j \in 1..n
      BY <1>0, <1>4, <2>4, <3>1, <3>3 DEF IInv, Decisions, RetriesAreSpaced
    <3> QED BY <3>2, <3>3, <1>4
  <2>6. BeliefIsProbed'
    <3> SUFFICES ASSUME NEW j \in 1..n + 1, K > 0, j > K,
                        results'[j].bytes > 0, ~Tried(results'[j])
                 PROVE  \E i \in j - K..j - 1 : Tried(results'[i])
      BY <1>3, <2>2 DEF BeliefIsProbed
    <3>1. CASE j = n + 1
      <4>1. ~ProbeDue
        BY <1>1, <1>3, <1>4, <3>1
      <4>2. sinceTransfer < K /\ sinceTransfer < n
        BY <1>0, <1>4, <2>1, <3>1, <4>1
      <4>3. n - sinceTransfer \in 1..n
        BY <1>4, <2>1, <4>2
      <4>4. n - sinceTransfer \in j - K..j - 1
        BY <1>0, <1>4, <2>1, <3>1, <4>2
      <4> QED BY <1>4, <2>1, <4>2, <4>3, <4>4
    <3>2. CASE j \in 1..n
      <4>1. \E i \in j - K..j - 1 : Tried(results[i])
        BY <1>0, <1>3, <1>4, <3>2 DEF IInv, Decisions, BeliefIsProbed
      <4> QED BY <1>0, <1>4, <3>2, <4>1
    <3> QED BY <3>1, <3>2, <1>4
  <2>7. DivergenceIsExplained'
    <3> SUFFICES ASSUME NEW j \in 1..n + 1, results'[j].believed # results'[j].action
                 PROVE \/ /\ results'[j].action = "transfer"
                          /\ K > 0 /\ j > K /\ \A i \in j - K..j - 1 : ~Tried(results'[i])
                       \/ /\ results'[j].believed = "transfer"
                          /\ \E i \in 1..n + 1 : (LastTry(i, j))' /\ Failed(results'[i])
      BY <1>3, <2>2, Zenon DEF DivergenceIsExplained
    <3>1. CASE j = n + 1
      <4>0. results'[j] = new /\ action # choice
        BY <1>3, <3>1
      <4>1. CASE ProbeDue
        <5>1. results'[j].action = "transfer" /\ K > 0 /\ j > K
          BY <1>0, <1>1, <1>4, <2>1, <3>1, <4>0, <4>1
        <5>2. \A i \in j - K..j - 1 : ~Tried(results'[i])
          <6>1. \A i \in j - K..j - 1 : i \in n - sinceTransfer + 1..n /\ i \in 1..n
            BY <1>0, <1>4, <2>1, <3>1, <4>1
          <6> QED BY <1>4, <2>1, <6>1
        <5> QED BY <5>1, <5>2
      <4>2. CASE ~ProbeDue
        <5>0. down /\ choice = "transfer"
          BY <1>1, <4>0, <4>2, Zenon
        <5>1. sinceTransfer < n /\ Failed(results[n - sinceTransfer])
          BY <2>1, <5>0, Zenon
        <5>2. results'[j].believed = "transfer"
          BY <4>0, <5>0
        <5>3. PICK i \in 1..n : i = n - sinceTransfer
          BY <1>4, <2>1, <5>1
        <5>4. (LastTry(i, j))'
          <6>1. i < j /\ Tried(results'[i]) /\ j - 1 = n
            BY <1>4, <2>1, <3>1, <5>1, <5>3
          <6>2. \A l \in i + 1..n : ~Tried(results'[l])
            BY <1>4, <2>1, <5>3
          <6> QED BY <6>1, <6>2 DEF LastTry
        <5>5. Failed(results'[i])
          BY <1>4, <5>1, <5>3
        <5> QED BY <5>2, <5>4, <5>5, <1>4
      <4> QED BY <4>1, <4>2
    <3>2. CASE j \in 1..n
      <4>1. results'[j] = results[j]
        BY <1>3, <3>2
      <4>2. \/ /\ results[j].action = "transfer"
               /\ K > 0 /\ j > K /\ \A i \in j - K..j - 1 : ~Tried(results[i])
            \/ /\ results[j].believed = "transfer"
               /\ \E i \in 1..n : LastTry(i, j) /\ Failed(results[i])
        BY <1>0, <1>4, <3>2, <4>1 DEF IInv, Decisions, DivergenceIsExplained
      <4>3. CASE results[j].action = "transfer" /\ K > 0 /\ j > K
                 /\ \A i \in j - K..j - 1 : ~Tried(results[i])
        BY <1>0, <1>4, <3>2, <4>1, <4>3
      <4>4. CASE results[j].believed = "transfer"
                 /\ \E i \in 1..n : LastTry(i, j) /\ Failed(results[i])
        BY <1>4, <2>4, <3>2, <4>1, <4>4
      <4> QED BY <4>2, <4>3, <4>4
    <3> QED BY <3>1, <3>2, <1>4
  <2> QED BY <2>5, <2>6, <2>7 DEF Decisions
<1>8. LearnsFromSuccesses'
  <2>0. results \in Seq(Result) /\ Len(results) = n /\ Finished = results /\ learned' = learned
    BY <1>0, <1>4 DEF TypeOK, Last, Finished
  <2>1. /\ Len(learned) = Successes(results, n)
        /\ \A j \in 1..n : Succeeded(results[j]) =>
              learned[Successes(results, j)] =
                  [bytes |-> results[j].bytes, seconds |-> results[j].seconds]
    BY <1>0, <1>4, <2>0 DEF IInv, LearnsFromSuccesses
  <2>2. CASE calls
    <3>1. pc' = "call" /\ Current' = n + 1
      BY <1>1, <1>3, <2>2 DEF Current
    <3>2. Finished' = SubSeq(results', 1, n)
      BY <1>4, <3>1 DEF Finished, Current
    <3>3. SubSeq(results', 1, n) = results
      BY <1>0, <1>1, <1>2, <2>0, SubSeqOfAppend
    <3> QED BY <1>0, <1>4, <2>0, <2>1, <3>2, <3>3 DEF LearnsFromSuccesses
  <2>3. CASE ~calls
    <3>1. Finished' = results'
      BY <1>1, <2>3 DEF Finished
    <3>2. \A j \in 1..n : Successes(results', j) = Successes(results, j)
      BY <1>3, <1>4, SuccessesAgree
    <3>3. ~Succeeded(results'[n + 1])
      BY <1>3, <2>3 DEF Succeeded
    <3>4. Successes(results', n + 1) = Successes(results, n)
      <4>1. Successes(results', n) = Successes(results, n)
        BY <1>3, <1>4, SuccessesAgree
      <4> QED BY <1>4, <3>3, <4>1, SuccessesNext
    <3>5. /\ Len(learned') = Successes(results', n + 1)
          /\ \A j \in 1..n + 1 : Succeeded(results'[j]) =>
                learned'[Successes(results', j)] =
                    [bytes |-> results'[j].bytes, seconds |-> results'[j].seconds]
      <4>1. ASSUME NEW j \in 1..n + 1, Succeeded(results'[j])
            PROVE  learned'[Successes(results', j)] =
                    [bytes |-> results'[j].bytes, seconds |-> results'[j].seconds]
        <5>1. j \in 1..n
          BY <1>4, <3>3, <4>1
        <5> QED BY <1>3, <2>0, <2>1, <3>2, <4>1, <5>1
      <4> QED BY <2>0, <2>1, <3>4, <4>1
    <3> QED BY <1>3, <3>1, <3>5 DEF LearnsFromSuccesses
  <2> QED BY <2>2, <2>3
<1> QED BY <1>5, <1>6, <1>7, <1>8 DEF IInv

-----------------------------------------------------------------------------
(* The other steps decide nothing: they keep the decisions, complete the   *)
(* last result, or cut it off.                                             *)

LEMMA FinishedFacts ==
    ASSUME IInv
    PROVE  /\ Finished \in Seq(Result)
           /\ Len(Finished) = IF pc = "call" THEN Last - 1 ELSE Last
           /\ Len(Finished) \in 0..Last
           /\ \A j \in 1..Len(Finished) : Finished[j] = results[j]
<1>1. Last \in Nat /\ results \in Seq(Result) /\ \A j \in 1..Last : results[j] \in Result
  BY LenProperties, ElementOfSeq DEF IInv, TypeOK, Last
<1>2. CASE pc = "call"
  <2>1. Finished = SubSeq(results, 1, Last - 1) /\ Last > 0
    BY <1>2 DEF IInv, CallInv, Finished, Last, Current
  <2>2. \A j \in 1..Last - 1 : results[j] \in Result
    BY <1>1
  <2>3. /\ SubSeq(results, 1, Last - 1) \in Seq(Result)
        /\ Len(SubSeq(results, 1, Last - 1)) = Last - 1
        /\ \A j \in 1..Last - 1 : SubSeq(results, 1, Last - 1)[j] = results[j]
    BY <1>1, <2>1, <2>2, SubSeqProperties
  <2> QED BY <1>1, <1>2, <2>1, <2>3
<1>3. CASE pc # "call"
  BY <1>1, <1>3 DEF Finished, Last
<1> QED BY <1>2, <1>3

LEMMA DecisionsKept ==
    ASSUME IInv, NEW m \in 0..Last, K' = K, DOMAIN results' = 1..m,
           \A j \in 1..m : /\ results'[j].believed = results[j].believed
                           /\ results'[j].action = results[j].action
                           /\ results'[j].bytes = results[j].bytes
                           /\ j < m => results'[j].err = results[j].err
    PROVE  Decisions'
<1>1. Last \in Nat /\ DOMAIN results = 1..Last /\ K \in Int
  BY KIsInt DEF IInv, TypeOK, Last
<1>2. \A j \in 1..m : /\ Tried(results'[j]) <=> Tried(results[j])
                      /\ j < m => (Failed(results'[j]) <=> Failed(results[j]))
  BY DEF Tried, Failed
<1>3. \A i, j \in 1..m : (LastTry(i, j))' <=> LastTry(i, j)
  BY <1>1, <1>2 DEF LastTry
<1>4. RetriesAreSpaced'
  <2> SUFFICES ASSUME NEW i \in 1..m, NEW j \in 1..m,
                      (LastTry(i, j))', Tried(results'[j]), Failed(results'[i])
               PROVE  K > 0 /\ j - i > K
    BY DEF RetriesAreSpaced
  <2>1. i < j
    BY DEF LastTry
  <2> QED BY <1>1, <1>2, <1>3, <2>1 DEF IInv, Decisions, RetriesAreSpaced
<1>5. BeliefIsProbed'
  <2> SUFFICES ASSUME NEW j \in 1..m, K > 0, j > K,
                      results'[j].bytes > 0, ~Tried(results'[j])
               PROVE  \E i \in j - K..j - 1 : Tried(results'[i])
    BY DEF BeliefIsProbed
  <2>1. \E i \in j - K..j - 1 : Tried(results[i])
    BY <1>1, <1>2 DEF IInv, Decisions, BeliefIsProbed
  <2> QED BY <1>1, <1>2, <2>1
<1>6. DivergenceIsExplained'
  <2> SUFFICES ASSUME NEW j \in 1..m, results'[j].believed # results'[j].action
               PROVE \/ /\ results'[j].action = "transfer"
                        /\ K > 0 /\ j > K /\ \A i \in j - K..j - 1 : ~Tried(results'[i])
                     \/ /\ results'[j].believed = "transfer"
                        /\ \E i \in 1..m : (LastTry(i, j))' /\ Failed(results'[i])
    BY Zenon DEF DivergenceIsExplained
  <2>1. \/ /\ results[j].action = "transfer"
           /\ K > 0 /\ j > K /\ \A i \in j - K..j - 1 : ~Tried(results[i])
        \/ /\ results[j].believed = "transfer"
           /\ \E i \in 1..Last : LastTry(i, j) /\ Failed(results[i])
    BY <1>1 DEF IInv, Decisions, DivergenceIsExplained
  <2>2. CASE results[j].action = "transfer" /\ K > 0 /\ j > K
             /\ \A i \in j - K..j - 1 : ~Tried(results[i])
    <3>1. \A i \in j - K..j - 1 : i \in 1..m
      BY <1>1, <2>2
    <3>2. \A i \in j - K..j - 1 : ~Tried(results'[i])
      BY <1>2, <2>2, <3>1
    <3>3. results'[j].action = "transfer"
      BY <2>2
    <3> QED BY <2>2, <3>2, <3>3
  <2>3. CASE results[j].believed = "transfer"
             /\ \E i \in 1..Last : LastTry(i, j) /\ Failed(results[i])
    <3>1. PICK i \in 1..Last : LastTry(i, j) /\ Failed(results[i])
      BY <2>3
    <3>2. i \in 1..m /\ i < m
      BY <1>1, <3>1 DEF LastTry
    <3> QED BY <1>2, <1>3, <2>3, <3>1, <3>2
  <2> QED BY <2>1, <2>2, <2>3
<1> QED BY <1>4, <1>5, <1>6 DEF Decisions

(* Run returns what has finished, or nothing. *)
LEMMA ReturnIInv ==
    ASSUME IInv, pc # "returned", NEW e, e \in Errors,
           Stop(e) \/ (e = "estimate" /\ Return(<<>>, e)),
           UNCHANGED <<cfg, ctxEnded, belief, sinceTransfer, down, learned>>
    PROVE  IInv'
<1>1. pc' = "returned" /\ err' = e /\ (results' = Finished \/ (e = "estimate" /\ results' = <<>>))
  BY DEF Stop, Return
<1>2. PICK m \in 0..Last : /\ results' \in Seq(Result) /\ Len(results') = m
                           /\ DOMAIN results' = 1..m
                           /\ \A j \in 1..m : results'[j] = results[j]
  <2>1. CASE results' = Finished
    BY <2>1, FinishedFacts, LenProperties
  <2>2. CASE results' = <<>>
    <3>1. Last \in Nat
      BY LenProperties DEF IInv, TypeOK, Last
    <3> QED BY <2>2, <3>1
  <2> QED BY <1>1, <2>1, <2>2
<1>3. TypeOK'
  <2>1. ctxEnded' \in BOOLEAN /\ down' \in BOOLEAN
    BY Zenon DEF IInv, TypeOK
  <2> QED BY <1>1, <1>2, <2>1, NAssumption, LenProperties DEF IInv, TypeOK, Last
<1>4. StartInv' /\ CountInv' /\ DownInv' /\ CallInv'
  BY <1>1 DEF StartInv, CountInv, DownInv, CallInv
<1>5. Decisions'
  BY <1>2, DecisionsKept DEF K
<1>6. LearnsFromSuccesses'
  <2>1. Finished' = results'
    BY <1>1 DEF Finished
  <2>2. CASE err' = "estimate"
    BY <2>2 DEF LearnsFromSuccesses
  <2>3. CASE results' = Finished /\ err # "estimate"
    BY <2>1, <2>3 DEF IInv, LearnsFromSuccesses
  <2>4. err # "estimate"
    BY DEF IInv, StartInv
  <2> QED BY <1>1, <2>2, <2>3, <2>4
<1> QED BY <1>3, <1>4, <1>5, <1>6 DEF IInv

(* The call in progress ends and the run goes on. *)
LEMMA AnswerFacts ==
    ASSUME IInv, pc = "call", NEW r \in Result,
           results' = [results EXCEPT ![Current] = r], pc' = "wait",
           r.believed = results[Last].believed, r.action = results[Last].action,
           r.bytes = results[Last].bytes, cfg' = cfg
    PROVE  /\ Last \in Nat /\ Last > 0 /\ Last' = Last /\ sinceTransfer = 0
           /\ results' \in Seq(Result) /\ results'[Last] = r
           /\ DOMAIN results' = 1..Last
           /\ \A j \in 1..Last - 1 : results'[j] = results[j]
           /\ Tried(results[Last]) /\ Tried(r)
           /\ \A j \in 1..Last : Tried(results'[j]) <=> Tried(results[j])
           /\ Decisions'
<1>1. /\ Last \in Nat /\ Last > 0 /\ sinceTransfer = 0 /\ results \in Seq(Result)
      /\ DOMAIN results = 1..Last /\ Tried(results[Last]) /\ Current = Last
  BY DEF IInv, TypeOK, CallInv, CountInv, Last, Current
<1>2. /\ results' \in Seq(Result) /\ Len(results') = Last /\ DOMAIN results' = 1..Last
      /\ \A j \in 1..Last : results'[j] = IF j = Last THEN r ELSE results[j]
  BY <1>1, ExceptSeq, LenProperties DEF Last
<1>3. results'[Last] = r /\ \A j \in 1..Last - 1 : results'[j] = results[j]
  BY <1>1, <1>2
<1>4. Decisions'
  <2>1. PICK m \in 0..Last : m = Last
    BY <1>1
  <2>2. \A j \in 1..m : /\ results'[j].believed = results[j].believed
                        /\ results'[j].action = results[j].action
                        /\ results'[j].bytes = results[j].bytes
                        /\ j < m => results'[j].err = results[j].err
    BY <1>1, <1>2, <2>1
  <2> QED BY <1>2, <2>1, <2>2, DecisionsKept DEF K
<1>5. \A j \in 1..Last : Tried(results'[j]) <=> Tried(results[j])
  BY <1>1, <1>2 DEF Tried
<1>6. Tried(r)
  BY <1>1 DEF Tried
<1> QED BY <1>1, <1>2, <1>3, <1>4, <1>5, <1>6 DEF Last

LEMMA SucceedsIInv == ASSUME IInv, NEW t \in Times, CallSucceeds(t) PROVE IInv'
<1> DEFINE r == [results[Last] EXCEPT !.seconds = t]
<1>1. /\ pc = "call" /\ pc' = "wait" /\ down' = FALSE /\ belief' \in Beliefs
      /\ learned' = Append(learned, [bytes |-> results[Current].bytes, seconds |-> t])
      /\ results' = [results EXCEPT ![Current].seconds = t]
      /\ UNCHANGED <<cfg, ctxEnded, sinceTransfer, err>>
  BY DEF CallSucceeds
<1>2. /\ Last \in Nat /\ Last > 0 /\ results \in Seq(Result) /\ results[Last] \in Result
      /\ Current = Last /\ results[Last].err = "none" /\ err = "none"
      /\ learned \in Seq([bytes : Int, seconds : Times]) /\ sinceTransfer = 0
  BY <1>1, ElementOfSeq DEF IInv, TypeOK, CallInv, StartInv, Last, Current
<1>3. /\ r \in Result /\ r.err = "none" /\ r.seconds = t /\ r.bytes = results[Last].bytes
      /\ r.believed = results[Last].believed /\ r.action = results[Last].action
      /\ results' = [results EXCEPT ![Current] = r]
  <2>1. t \in Nat
    BY TimesAssumption
  <2>2. /\ r \in Result /\ r.err = "none" /\ r.seconds = t /\ r.bytes = results[Last].bytes
        /\ r.believed = results[Last].believed /\ r.action = results[Last].action
    BY <1>2, <2>1 DEF Result
  <2>3. results' = [results EXCEPT ![Current] = r]
    BY <1>1, <1>2
  <2> QED BY <2>2, <2>3
<1> HIDE DEF r
<1>4. /\ Last' = Last /\ results' \in Seq(Result) /\ results'[Last] = r
      /\ DOMAIN results' = 1..Last
      /\ \A j \in 1..Last - 1 : results'[j] = results[j]
      /\ Tried(r) /\ Decisions'
      /\ \A j \in 1..Last : Tried(results'[j]) <=> Tried(results[j])
  BY <1>1, <1>3, AnswerFacts
<1>5. /\ learned' \in Seq([bytes : Int, seconds : Times]) /\ Len(learned') = Len(learned) + 1
      /\ \A j \in 1..Len(learned) : learned'[j] = learned[j]
      /\ learned'[Len(learned) + 1] = [bytes |-> r.bytes, seconds |-> t]
  <2>1. [bytes |-> results[Last].bytes, seconds |-> t] \in [bytes : Int, seconds : Times]
    BY <1>2 DEF Result
  <2> QED BY <1>1, <1>2, <1>3, <2>1, AppendProperties
<1>6. TypeOK'
  <2>1. ctxEnded' \in BOOLEAN /\ down' \in BOOLEAN
    BY <1>1, Zenon DEF IInv, TypeOK
  <2> QED BY <1>1, <1>2, <1>4, <1>5, <2>1 DEF IInv, TypeOK, Last
<1>7. StartInv' /\ CountInv' /\ CallInv'
  <2>1. StartInv' /\ CallInv'
    BY <1>1, <1>2 DEF StartInv, CallInv
  <2>2. /\ sinceTransfer' = 0 /\ Last' = Last /\ Tried(results'[Last])
    BY <1>1, <1>2, <1>4
  <2> QED BY <1>2, <2>1, <2>2 DEF CountInv
<1>8. DownInv'
  <2>1. ~Failed(results'[Last])
    BY <1>3, <1>4 DEF Failed
  <2> QED BY <1>1, <1>2, <1>4, <2>1 DEF DownInv
<1>9. LearnsFromSuccesses'
  <2>1. PICK n \in Nat : n = Last - 1
    BY <1>2
  <2>2. /\ Finished' = results' /\ Len(Finished) = n
        /\ \A j \in 1..n : Finished[j] = results'[j]
    <3>1. Finished' = results'
      BY <1>1 DEF Finished
    <3> QED BY <1>1, <1>4, <2>1, <3>1, FinishedFacts
  <2>3. /\ Len(learned) = Successes(Finished, n)
        /\ \A j \in 1..n : Succeeded(Finished[j]) =>
              learned[Successes(Finished, j)] =
                  [bytes |-> Finished[j].bytes, seconds |-> Finished[j].seconds]
    <3>1. DOMAIN Finished = 1..n
      BY <2>2, FinishedFacts, LenProperties
    <3> QED BY <1>2, <2>2, <3>1 DEF IInv, LearnsFromSuccesses
  <2>4. \A j \in 0..n : Successes(results', j) = Successes(Finished, j)
    BY <2>2, SuccessesAgree
  <2>5. Succeeded(results'[n + 1]) /\ n + 1 = Last
    BY <1>2, <1>3, <1>4, <2>1 DEF Succeeded, Tried
  <2>6. Successes(results', n + 1) = Len(learned) + 1
    <3>1. Successes(results', n) = Len(learned)
      BY <2>3, <2>4
    <3> QED BY <2>5, <3>1, SuccessesNext
  <2>7. ASSUME NEW j \in 1..n + 1, Succeeded(results'[j])
        PROVE  learned'[Successes(results', j)] =
                 [bytes |-> results'[j].bytes, seconds |-> results'[j].seconds]
    <3>1. CASE j = n + 1
      BY <1>3, <1>4, <1>5, <2>5, <2>6, <3>1
    <3>2. CASE j \in 1..n
      <4>1. /\ Successes(results', j) = Successes(Finished, j)
            /\ learned[Successes(Finished, j)] =
                  [bytes |-> results'[j].bytes, seconds |-> results'[j].seconds]
        BY <2>2, <2>3, <2>4, <2>7, <3>2
      <4>2. Successes(Finished, j) \in 1..Len(learned)
        BY <2>2, <2>3, <2>7, <3>2, SuccessesGrow
      <4> QED BY <1>5, <4>1, <4>2
    <3> QED BY <3>1, <3>2
  <2> QED BY <1>4, <1>5, <2>2, <2>5, <2>6, <2>7 DEF LearnsFromSuccesses, Last
<1> QED BY <1>4, <1>6, <1>7, <1>8, <1>9 DEF IInv

LEMMA FailsIInv == ASSUME IInv, NEW e \in CallErrors, CallFails(e) PROVE IInv'
<1>1. /\ pc = "call" /\ UNCHANGED <<cfg, ctxEnded, belief, sinceTransfer, learned>>
      /\ e \in Errors
  BY DEF CallFails, Errors
<1>2. CASE ctxEnded \/ e \in Misconfigured
  <2>1. Stop(e) /\ UNCHANGED down
    BY <1>2 DEF CallFails
  <2> QED BY <1>1, <2>1, ReturnIInv
<1>3. CASE ~(ctxEnded \/ e \in Misconfigured)
  <2>1. /\ pc' = "wait" /\ down' = TRUE /\ err' = err
        /\ results' = [results EXCEPT ![Current].err = e]
    BY <1>3 DEF CallFails
  <2> DEFINE r == [results[Last] EXCEPT !.err = e]
  <2>2. /\ Last \in Nat /\ Last > 0 /\ results \in Seq(Result) /\ results[Last] \in Result
        /\ Current = Last /\ err = "none" /\ sinceTransfer = 0
    BY <1>1, ElementOfSeq DEF IInv, TypeOK, CallInv, StartInv, Last, Current
  <2>3. /\ r \in Result /\ r.err = e /\ r.bytes = results[Last].bytes
        /\ r.believed = results[Last].believed /\ r.action = results[Last].action
    BY <2>2 DEF Result
  <2>4. results' = [results EXCEPT ![Current] = r]
    BY <2>1, <2>2
  <2> HIDE DEF r
  <2>5. /\ Last' = Last /\ results' \in Seq(Result) /\ results'[Last] = r
        /\ DOMAIN results' = 1..Last
        /\ \A j \in 1..Last - 1 : results'[j] = results[j]
        /\ Tried(r) /\ Decisions'
    BY <1>1, <2>1, <2>3, <2>4, AnswerFacts
  <2>6. e # "none"
    BY DEF CallErrors
  <2>7. TypeOK'
    <3>1. ctxEnded' \in BOOLEAN /\ down' \in BOOLEAN
      BY <1>1, <2>1, Zenon DEF IInv, TypeOK
    <3> QED BY <1>1, <2>1, <2>2, <2>5, <3>1 DEF IInv, TypeOK, Last
  <2>8. StartInv' /\ CallInv'
    BY <2>1, <2>2 DEF StartInv, CallInv
  <2>9. CountInv' /\ DownInv'
    <3>1. sinceTransfer' = 0 /\ Last' = Last /\ Tried(results'[Last]) /\ Failed(results'[Last])
      BY <1>1, <2>2, <2>3, <2>5, <2>6 DEF Failed
    <3> QED BY <2>1, <2>2, <3>1 DEF CountInv, DownInv
  <2>10. LearnsFromSuccesses'
    <3>1. PICK n \in Nat : n = Last - 1
      BY <2>2
    <3>2. /\ Finished' = results' /\ Len(Finished) = n
          /\ \A j \in 1..n : Finished[j] = results'[j]
      <4>1. Finished' = results'
        BY <2>1 DEF Finished
      <4> QED BY <1>1, <2>5, <3>1, <4>1, FinishedFacts
    <3>3. /\ Len(learned) = Successes(Finished, n)
          /\ \A j \in 1..n : Succeeded(Finished[j]) =>
                learned[Successes(Finished, j)] =
                    [bytes |-> Finished[j].bytes, seconds |-> Finished[j].seconds]
      <4>1. DOMAIN Finished = 1..n
        BY <3>2, FinishedFacts, LenProperties
      <4> QED BY <2>2, <3>2, <4>1 DEF IInv, LearnsFromSuccesses
    <3>4. \A j \in 0..n : Successes(results', j) = Successes(Finished, j)
      BY <3>2, SuccessesAgree
    <3>5. ~Succeeded(results'[n + 1]) /\ n + 1 = Last
      BY <2>2, <2>3, <2>5, <2>6, <3>1 DEF Succeeded
    <3>6. Successes(results', n + 1) = Len(learned)
      <4>1. Successes(results', n) = Len(learned)
        BY <3>3, <3>4
      <4> QED BY <3>5, <4>1, SuccessesNext
    <3>7. ASSUME NEW j \in 1..n + 1, Succeeded(results'[j])
          PROVE  learned'[Successes(results', j)] =
                   [bytes |-> results'[j].bytes, seconds |-> results'[j].seconds]
      <4>1. j \in 1..n
        BY <3>5, <3>7
      <4> QED BY <1>1, <3>2, <3>3, <3>4, <3>7, <4>1
    <3> QED BY <1>1, <2>5, <3>2, <3>5, <3>6, <3>7 DEF LearnsFromSuccesses, Last
  <2> QED BY <2>5, <2>7, <2>8, <2>9, <2>10 DEF IInv
<1> QED BY <1>2, <1>3

-----------------------------------------------------------------------------
LEMMA UnchangedIInv ==
    ASSUME IInv,
           UNCHANGED <<cfg, belief, sinceTransfer, down, results, err, learned>>,
           ctxEnded' \in BOOLEAN,
           pc' = pc \/ (pc = "start" /\ pc' = "wait")
    PROVE  IInv'
<1>1. TypeOK' /\ StartInv' /\ LearnsFromSuccesses'
  <2>1. down' \in BOOLEAN
    BY Zenon DEF IInv, TypeOK
  <2>2. TypeOK'
    BY <2>1 DEF IInv, TypeOK
  <2>3. StartInv'
    BY DEF IInv, StartInv
  <2>4. Finished' = Finished
    BY DEF Finished, Current
  <2>5. LearnsFromSuccesses'
    BY <2>4 DEF IInv, LearnsFromSuccesses
  <2> QED BY <2>2, <2>3, <2>5
<1>2. CountInv' /\ CallInv'
  BY DEF IInv, TypeOK, CountInv, CallInv, Last
<1>3. DownInv'
  <2>1. CASE pc' = pc
    BY <2>1 DEF IInv, DownInv, Last
  <2>2. CASE pc = "start" /\ pc' = "wait"
    <3>1. down' = FALSE /\ ~(sinceTransfer' < Last')
      BY <2>2 DEF IInv, StartInv, Last
    <3> QED BY <3>1 DEF DownInv
  <2> QED BY <2>1, <2>2
<1>4. Decisions'
  BY DEF IInv, Decisions, RetriesAreSpaced, BeliefIsProbed, DivergenceIsExplained, LastTry, K
<1> QED BY <1>1, <1>2, <1>3, <1>4 DEF IInv

LEMMA StepIInv == IInv /\ [Next]_vars => IInv'
<1> SUFFICES ASSUME IInv, [Next]_vars PROVE IInv'
  OBVIOUS
<1>0. /\ ctxEnded \in BOOLEAN
      /\ {"config", "ctx", "estimate", "none"} \subseteq Errors
  BY Zenon DEF IInv, TypeOK, Errors
<1>1. ASSUME Start PROVE IInv'
  <2>1. CASE InvalidConfig
    <3>1. Finished = <<>>
      BY <1>1 DEF Start, IInv, StartInv, Finished
    <3>2. Stop("config")
      BY <1>1, <2>1, <3>1 DEF Start, Stop
    <3> QED BY <1>0, <1>1, <3>2, ReturnIInv DEF Start
  <2>2. CASE ~InvalidConfig
    BY <1>0, <1>1, <2>2, UnchangedIInv DEF Start
  <2> QED BY <2>1, <2>2
<1>2. ASSUME StopWaiting PROVE IInv'
  <2>1. /\ Stop("ctx") /\ pc # "returned"
        /\ UNCHANGED <<cfg, ctxEnded, belief, sinceTransfer, down, learned>>
    BY <1>2 DEF StopWaiting
  <2> QED BY <1>0, <2>1, ReturnIInv, Zenon
<1>3. ASSUME NEW s \in Scenarios, RejectInputs(s) PROVE IInv'
  BY <1>0, <1>3, ReturnIInv DEF RejectInputs
<1>4. ASSUME Finish PROVE IInv'
  <2>1. Stop("none")
    BY <1>4 DEF Finish, Stop, Finished
  <2> QED BY <1>0, <1>4, <2>1, ReturnIInv DEF Finish
<1>5. ASSUME CtxEnd PROVE IInv'
  BY <1>5, UnchangedIInv DEF CtxEnd
<1>6. ASSUME UNCHANGED vars PROVE IInv'
  BY <1>0, <1>6, UnchangedIInv DEF vars
<1> QED BY <1>1, <1>2, <1>3, <1>4, <1>5, <1>6, RequestIInv, SucceedsIInv, FailsIInv
        DEF Next, Loop, Answer

(* The probe count and the down state of Run describe the results so far.  *)
THEOREM Invariance == Spec => []IInv
<1> QED BY InitIInv, StepIInv, PTL DEF Spec

(* Run's variables keep their types. *)
THEOREM RunIsTypeCorrect == Spec => []TypeOK
<1>1. IInv => TypeOK
  BY DEF IInv
<1> QED BY <1>1, Invariance, PTL

(* A dead worker is tried once in K + 1 requests at most.                  *)
THEOREM DeadWorkersRest == Spec => []RetriesAreSpaced
<1>1. IInv => RetriesAreSpaced
  BY DEF IInv, Decisions
<1> QED BY <1>1, Invariance, PTL

(* No belief goes unmeasured for more than K requests with something to    *)
(* send. *)
THEOREM BeliefsAreMeasured == Spec => []BeliefIsProbed
<1>1. IInv => BeliefIsProbed
  BY DEF IInv, Decisions
<1> QED BY <1>1, Invariance, PTL

(* Only a probe that was due or a path that was down overrides a belief.   *)
THEOREM OverridesAreExplained == Spec => []DivergenceIsExplained
<1>1. IInv => DivergenceIsExplained
  BY DEF IInv, Decisions
<1> QED BY <1>1, Invariance, PTL

(* The learner is told of the successes, in order, and of nothing else.    *)
THEOREM LearnsExactlySuccesses == Spec => []LearnsFromSuccesses
<1>1. IInv => LearnsFromSuccesses
  BY DEF IInv
<1> QED BY <1>1, Invariance, PTL

-----------------------------------------------------------------------------
(* What Run returns when it stops.                                         *)

LEMMA PrefixIsKept ==
    ASSUME NEW S, NEW rs \in Seq(S), NEW qs \in Seq(S), Len(rs) <= Len(qs),
           \A j \in 1..Len(rs) : qs[j] = rs[j]
    PROVE  SubSeq(qs, 1, Len(rs)) = rs
<1>1. Len(rs) \in Nat /\ Len(qs) \in Nat /\ \A j \in 1..Len(rs) : qs[j] \in S
  BY LenProperties, ElementOfSeq
<1>2. /\ SubSeq(qs, 1, Len(rs)) \in Seq(S) /\ Len(SubSeq(qs, 1, Len(rs))) = Len(rs)
      /\ \A j \in 1..Len(rs) : SubSeq(qs, 1, Len(rs))[j] = rs[j]
  BY <1>1, SubSeqProperties
<1> QED BY <1>1, <1>2, SeqEqual

LEMMA StepKeepsFinished ==
    ASSUME IInv, Next, err' # "estimate"
    PROVE  /\ SubSeq(results', 1, Len(Finished)) = Finished
           /\ pc' = "returned" => results' = Finished
<1>0. /\ results \in Seq(Result) /\ Last \in Nat /\ Last = Len(results)
      /\ Finished \in Seq(Result) /\ Len(Finished) <= Last
      /\ \A j \in 1..Len(Finished) : Finished[j] = results[j]
      /\ Len(Finished) = IF pc = "call" THEN Last - 1 ELSE Last
      /\ Len(Finished) \in Nat
  BY FinishedFacts, LenProperties DEF IInv, TypeOK, Last
<1>a. ASSUME results' = Finished PROVE SubSeq(results', 1, Len(Finished)) = Finished
  BY <1>0, <1>a, SubSeqFull
<1>b. ASSUME results' = results PROVE SubSeq(results', 1, Len(Finished)) = Finished
  BY <1>0, <1>b, PrefixIsKept
<1>1. ASSUME Start PROVE results' = Finished
  BY <1>1 DEF Start, Return, IInv, StartInv, Finished
<1>2. ASSUME StopWaiting \/ Finish PROVE results' = Finished
  BY <1>2 DEF StopWaiting, Finish, Stop, Return, Finished
<1>3. ASSUME NEW s \in Scenarios, RejectInputs(s) PROVE FALSE
  BY <1>3 DEF RejectInputs, Return
<1>4. ASSUME NEW s \in Scenarios, Request(s)
      PROVE  SubSeq(results', 1, Len(Finished)) = Finished /\ pc' # "returned"
  <2>1. IInv' /\ pc = "wait"
    BY <1>4, RequestIInv DEF Request
  <2>2. pc' # "returned" /\ \E e : results' = Append(results, e)
    BY <1>4 DEF Request
  <2>3. results' \in Seq(Result) /\ Len(Finished) = Len(results)
    BY <1>0, <2>1 DEF IInv, TypeOK
  <2>4. Len(results') = Len(results) + 1 /\ \A j \in 1..Len(results) : results'[j] = results[j]
    BY <1>0, <2>2
  <2> QED BY <1>0, <2>2, <2>3, <2>4, PrefixIsKept
<1>5. ASSUME NEW t \in Times, CallSucceeds(t)
      PROVE  SubSeq(results', 1, Len(Finished)) = Finished /\ pc' # "returned"
  <2>1. IInv' /\ pc = "call" /\ pc' # "returned"
    BY <1>5, SucceedsIInv DEF CallSucceeds
  <2>2. results' \in Seq(Result) /\ results' = [results EXCEPT ![Last].seconds = t]
    BY <1>5, <2>1 DEF IInv, TypeOK, CallSucceeds, Current, Last
  <2>3. Len(results') = Last /\ \A j \in 1..Last - 1 : results'[j] = results[j]
    BY <1>0, <2>2
  <2> QED BY <1>0, <2>1, <2>2, <2>3, PrefixIsKept
<1>6. ASSUME NEW e \in CallErrors, CallFails(e)
      PROVE  /\ SubSeq(results', 1, Len(Finished)) = Finished
             /\ pc' = "returned" => results' = Finished
  <2>1. IInv' /\ pc = "call" /\ results' \in Seq(Result)
    BY <1>6, FailsIInv DEF CallFails, IInv, TypeOK
  <2>2. CASE ctxEnded \/ e \in Misconfigured
    BY <1>a, <1>6, <2>2 DEF CallFails, Stop, Return
  <2>3. CASE ~(ctxEnded \/ e \in Misconfigured)
    <3>1. results' = [results EXCEPT ![Last].err = e] /\ pc' = "wait"
      BY <1>6, <2>3 DEF CallFails, Current, Last
    <3>2. Len(results') = Last /\ \A j \in 1..Last - 1 : results'[j] = results[j]
      BY <1>0, <3>1
    <3> QED BY <1>0, <2>1, <3>1, <3>2, PrefixIsKept
  <2> QED BY <2>2, <2>3
<1>7. ASSUME CtxEnd
      PROVE  SubSeq(results', 1, Len(Finished)) = Finished /\ pc' # "returned"
  BY <1>b, <1>7 DEF CtxEnd
<1> QED BY <1>a, <1>1, <1>2, <1>3, <1>4, <1>5, <1>6, <1>7 DEF Next, Loop, Answer

(* Run returns every request that finished, and only those, however it is  *)
(* stopped; Estimate's errors alone return none.                           *)
THEOREM NothingFinishedIsLost == Spec => StopKeepsFinished
<1> DEFINE Kept == err' # "estimate" =>
                      /\ SubSeq(results', 1, Len(Finished)) = Finished
                      /\ pc' = "returned" => results' = Finished
<1>1. IInv /\ [Next]_vars => [Kept]_vars
  BY StepKeepsFinished
<1> QED BY <1>1, Invariance, PTL DEF Spec, StopKeepsFinished

-----------------------------------------------------------------------------
(* The rows kvcontrol writes.                                              *)

(* How Run returned, and what was written of it. *)
EndInv ==
    pc = "returned" => /\ err = "none" => Len(results) = N
                       /\ err = "ctx" => ctxEnded

RowsInv == exit = "ok" => pc = "returned" /\ ExitsNormally /\ rows = WriteCSV(results)

LEMMA EndStep == IInv /\ EndInv /\ [Next]_vars => EndInv'
<1> SUFFICES ASSUME IInv, EndInv, [Next]_vars, pc' = "returned"
             PROVE  (err' = "none" => Len(results') = N) /\ (err' = "ctx" => ctxEnded')
  BY DEF EndInv
<1>0. Len(results) \in Nat /\ Len(results) <= N
  BY LenProperties DEF IInv, TypeOK
<1>1. CASE Start
  BY <1>1 DEF Start, Return
<1>2. CASE StopWaiting
  BY <1>2 DEF StopWaiting, Stop, Return
<1>3. CASE Finish
  BY <1>0, <1>3, NAssumption DEF Finish, Return, MoreRequests
<1>4. CASE \E s \in Scenarios : Request(s) \/ RejectInputs(s)
  BY <1>4 DEF Request, RejectInputs, Return
<1>5. CASE Answer
  BY <1>5 DEF Answer, CallSucceeds, CallFails, Stop, Return, CallErrors
<1>6. CASE CtxEnd
  BY <1>6 DEF CtxEnd
<1>7. CASE UNCHANGED vars
  BY <1>7 DEF vars, EndInv
<1> QED BY <1>1, <1>2, <1>3, <1>4, <1>5, <1>6, <1>7 DEF Next, Loop

LEMMA ReturnedIsFinal == ASSUME pc = "returned", [Next]_vars PROVE UNCHANGED vars
<1> QED BY DEF Next, Loop, Answer, Start, StopWaiting, Finish, Request, RejectInputs,
               CallSucceeds, CallFails, CtxEnd, vars

(* kvcontrol writes a row for every request of a run that ended by itself, *)
(* and its measured times are those the learner was told.                  *)
THEOREM RowsAreWhatWasLearned == KVSpec => []RowsAreComplete
<1> DEFINE KVInv == IInv /\ EndInv /\ RowsInv
<1>1. KVInit => KVInv
  BY InitIInv DEF KVInit, EndInv, RowsInv, Init
<1>2. KVInv /\ [KVNext]_kvars => KVInv'
  <2> SUFFICES ASSUME KVInv, [KVNext]_kvars PROVE KVInv'
    OBVIOUS
  <2>1. [Next]_vars
    BY DEF KVNext, Exit, kvars
  <2>2. IInv' /\ EndInv'
    BY <2>1, StepIInv, EndStep
  <2>3. RowsInv'
    <3>1. CASE Exit
      BY <3>1 DEF Exit, RowsInv, vars, ExitsNormally, WriteCSV
    <3>2. CASE UNCHANGED <<exit, rows>>
      BY <2>1, <3>2, ReturnedIsFinal DEF RowsInv, vars, ExitsNormally, WriteCSV
    <3> QED BY <3>1, <3>2 DEF KVNext, kvars
  <2> QED BY <2>2, <2>3
<1>3. KVInv => RowsAreComplete
  <2> SUFFICES ASSUME KVInv, exit = "ok"
               PROVE  /\ Len(rows) = N \/ ctxEnded
                      /\ Len(learned) = Measures(Len(rows))
                      /\ \A j \in DOMAIN rows : Measured(rows[j]) =>
                           learned[Measures(j)] =
                               [bytes |-> rows[j].bytes, seconds |-> rows[j].actual]
    BY DEF RowsAreComplete
  <2>1. /\ rows = [i \in DOMAIN results |-> Row(results[i])]
        /\ pc = "returned" /\ err \in {"none", "ctx"} /\ Finished = results
    BY DEF RowsInv, ExitsNormally, WriteCSV, Finished
  <2>2. PICK n \in Nat : n = Len(results) /\ DOMAIN results = 1..n
    BY LenProperties DEF IInv, TypeOK
  <2>3. Len(rows) = n /\ DOMAIN rows = 1..n /\ \A j \in 1..n : rows[j] = Row(results[j])
    BY <2>1, <2>2
  <2>4. \A j \in 1..n : results[j] \in Result
    BY <2>2, ElementOfSeq DEF IInv, TypeOK
  <2>5. ASSUME NEW j \in 1..n
        PROVE  /\ Measured(rows[j]) <=> Succeeded(results[j])
               /\ rows[j].bytes = results[j].bytes
               /\ Measured(rows[j]) => rows[j].actual = results[j].seconds
    BY <2>3, <2>4 DEF Measured, Succeeded, Row, Result, Empty
  <2>6. ASSUME NEW j \in 0..n PROVE Measures(j) = Successes(results, j)
    <3>1. {i \in 1..j : Measured(rows[i])} = {i \in 1..j : Succeeded(results[i])}
      BY <2>5
    <3> QED BY <3>1 DEF Measures, Successes
  <2>7. /\ Len(learned) = Successes(results, n)
        /\ \A j \in 1..n : Succeeded(results[j]) =>
              learned[Successes(results, j)] =
                  [bytes |-> results[j].bytes, seconds |-> results[j].seconds]
    BY <2>1, <2>2 DEF IInv, LearnsFromSuccesses
  <2>8. Len(rows) = N \/ ctxEnded
    BY <2>1, <2>2, <2>3 DEF EndInv
  <2> QED BY <2>3, <2>5, <2>6, <2>7, <2>8
<1> QED BY <1>1, <1>2, <1>3, PTL DEF KVSpec

-----------------------------------------------------------------------------
(* System: the controller and its worker.  The controller keeps what was   *)
(* proved of it above; exit and rows, kvcontrol's own, play no part here.  *)

OfLength(n, ks) == {k \in ks : bytes[k] = n}
OKs == {k \in Calls : out[k] = "OK"}

LEMMA SameCardinality == \A S : T!Cardinality(S) = Cardinality(S)
BY Zenon DEF T!Cardinality, Cardinality

LEMMA CallsFinite == /\ IsFiniteSet(Calls) /\ Cardinality(Calls) = N
                     /\ \A S \in SUBSET Calls : IsFiniteSet(S) /\ Cardinality(S) \in 0..N
<1>1. IsFiniteSet(Calls) /\ Cardinality(Calls) = N
  BY NAssumption, FS_Interval DEF Calls
<1>2. ASSUME NEW S \in SUBSET Calls PROVE IsFiniteSet(S) /\ Cardinality(S) \in 0..N
  <2>1. IsFiniteSet(S) /\ Cardinality(S) <= N
    BY <1>1, FS_Subset
  <2> QED BY <2>1, FS_CardinalityType, NAssumption
<1> QED BY <1>1, <1>2

LEMMA SystemConstants ==
    /\ Sizes \subseteq Nat /\ 0 \notin Sizes /\ \A n \in Sizes : n \in Nat /\ n > 0
    /\ None # "OK" /\ None \notin CallErrors /\ Misconfigured \subseteq CallErrors
    /\ \A e \in CtxErrs : e \in CallErrors /\ e # "OK" /\ e # "live" /\ e \notin Misconfigured
    /\ "OK" \notin CallErrors
BY SizesAssumption, NoneAssumption, CtxErrsAssumption DEF CallErrors, Misconfigured

-----------------------------------------------------------------------------
(* The invariant. *)

WorkerTypeOK ==
    /\ stage \in [Calls -> {"new", "waiting", "sending", "done"}]
    /\ bytes \in [Calls -> Sizes \cup {0}]
    /\ ctx \in [Calls -> {"live"} \cup CtxErrs]
    /\ begun \subseteq Calls
    /\ arrived \in [Sizes -> Nat]
    /\ out \in [Calls -> {"OK", None} \cup CallErrors]
    /\ asked \in [Calls -> Sizes \cup {0}]
    /\ restarts \in 0..MaxRestarts

(* Only requests the run has come to have asked, and the one in its call   *)
(* asked for what its result says.                                         *)
AskedInv ==
    /\ pc # "returned" => \A k \in Calls : asked[k] # 0 => k <= Len(results)
    /\ pc = "call" => /\ Len(results) \in Calls /\ asked[Len(results)] # 0
                      /\ asked[Len(results)] = results[Len(results)].bytes

(* The worker serves what was asked, for an allowed peer, and answers only *)
(* calls it has done with.                                                 *)
ServeInv ==
    \A k \in Calls :
        /\ stage[k] \in {"waiting", "sending"} \/ k \in begun =>
              asked[k] # 0 /\ bytes[k] = asked[k] /\ cfg.peerAddr \in Allowed
        /\ stage[k] \in {"new", "waiting"} => k \notin begun
        /\ stage[k] = "sending" \/ out[k] = "OK" => k \in begun
        /\ stage[k] # "done" => out[k] = None
        /\ out[k] \in Misconfigured => cfg.peerAddr \notin Allowed

(* Every OK stands for a transfer that arrived, and each that arrived for  *)
(* one that began.                                                         *)
TallyInv ==
    \A n \in Sizes : /\ Cardinality(OfLength(n, OKs)) <= arrived[n]
                     /\ arrived[n] <= Cardinality(OfLength(n, begun))

(* g tells which call each measurement came from: an OK of that length,    *)
(* and never the call that is still waiting.                               *)
Source(g) ==
    /\ g \in [1..Len(learned) -> Calls]
    /\ \A i, j \in DOMAIN g : g[i] = g[j] => i = j
    /\ \A i \in DOMAIN g :
          /\ out[g[i]] = "OK" /\ bytes[g[i]] = learned[i].bytes
          /\ pc # "returned" => g[i] <= Len(results)
          /\ pc = "call" => g[i] # Len(results)

LearnInv == \E g : Source(g)

RejectInv == err \in CallErrors /\ ~ctxEnded => cfg.peerAddr \notin Allowed

SParts == WorkerTypeOK /\ AskedInv /\ ServeInv /\ TallyInv /\ LearnInv /\ RejectInv
SInv == IInv /\ SParts

LEMMA InitSInv == SInit => SInv
<1> SUFFICES ASSUME SInit PROVE SInv
  OBVIOUS
<1> USE SystemConstants
<1>1. IInv
  BY InitIInv DEF SInit
<1>2. WorkerTypeOK
  BY RestartsAssumption DEF SInit, T!TInit, WorkerTypeOK
<1>3. AskedInv /\ ServeInv /\ RejectInv
  BY DEF SInit, T!TInit, Init, AskedInv, ServeInv, RejectInv, CallErrors
<1>4. TallyInv
  <2>1. ASSUME NEW n \in Sizes PROVE OfLength(n, OKs) = {} /\ OfLength(n, begun) = {} /\ arrived[n] = 0
    BY DEF SInit, T!TInit, OfLength, OKs
  <2> QED BY <2>1, FS_EmptySet DEF TallyInv
<1>5. Source(<<>>)
  BY DEF SInit, Init, Source
<1> QED BY <1>1, <1>2, <1>3, <1>4, <1>5 DEF SInv, SParts, LearnInv

-----------------------------------------------------------------------------
(* Every step of the system is one of the controller, or leaves it alone.  *)
LEMMA StepsOfRun == WorkerTypeOK /\ [SNext]_svars => [Next]_vars
<1> SUFFICES ASSUME WorkerTypeOK, [SNext]_svars PROVE [Next]_vars
  OBVIOUS
<1> USE SystemConstants
<1>1. CASE Control
  BY <1>1 DEF Control, Next
<1>2. ASSUME NEW k \in Calls, Reply(k) PROVE Next
  <2>1. out[k] = "OK" \/ out[k] \in CallErrors
    BY <1>2 DEF Reply, WorkerTypeOK
  <2> QED BY <1>2, <2>1 DEF Reply, Next, Answer
<1>3. ASSUME NEW k \in Calls, GiveUp(k) \/ Disconnect(k) PROVE Next
  BY <1>3 DEF GiveUp, Disconnect, Next, Answer, CallErrors
<1> QED BY <1>1, <1>2, <1>3 DEF SNext, Arrive, HandlerCtxEnd, Begin, Returns, Data, Restart, svars

(* What a step of the controller does to the requests that asked. *)
LEMMA ControlFacts ==
    ASSUME IInv, Loop \/ CtxEnd
    PROVE  /\ UNCHANGED <<cfg, learned>> /\ pc # "returned" /\ Len(results) \in Nat
           /\ ctxEnded' = FALSE => ctxEnded = FALSE
           /\ err' \in CallErrors => err' = err
           /\ Len(results') \in Nat
           /\ pc' # "returned" => Len(results) <= Len(results')
           /\ pc' = "call" /\ pc # "wait" => pc = "call" /\ results' = results
           /\ pc = "wait" /\ pc' = "call" =>
                 /\ Len(results') = Len(results) + 1 /\ Len(results') \in Calls
                 /\ results'[Len(results')].bytes \in Sizes
<1>1. Len(results) \in Nat /\ results \in Seq(Result)
  BY LenProperties DEF IInv, TypeOK
<1>2. ASSUME NEW s \in Scenarios, Request(s)
      PROVE  /\ UNCHANGED <<cfg, learned, ctxEnded, err>> /\ pc = "wait"
             /\ Len(results') = Len(results) + 1
             /\ pc' = "call" => /\ Len(results') \in Calls
                                /\ results'[Len(results')].bytes \in Sizes
  <2>1. /\ UNCHANGED <<cfg, learned, ctxEnded, err>> /\ pc = "wait" /\ MoreRequests
        /\ pc' = "call" => PrefixBytes(s) > 0
        /\ \E e : results' = Append(results, e) /\ e.bytes = PrefixBytes(s)
    BY <1>2 DEF Request
  <2>2. PICK e : results' = Append(results, e) /\ e.bytes = PrefixBytes(s)
    BY <2>1
  <2>3. Len(results') = Len(results) + 1 /\ results'[Len(results) + 1] = e
    BY <1>1, <2>2
  <2>4. Len(results) + 1 \in Calls
    BY <1>1, <2>1, NAssumption DEF MoreRequests, Calls
  <2> QED BY <2>1, <2>2, <2>3, <2>4, SizesAssumption
<1>3. ASSUME Start \/ StopWaiting \/ Finish \/ \E s \in Scenarios : RejectInputs(s)
      PROVE  /\ UNCHANGED <<cfg, learned, ctxEnded>> /\ pc \in {"start", "wait"}
             /\ \/ pc' = "wait" /\ results' = results /\ err' = err
                \/ pc' = "returned" /\ err' \in {"config", "ctx", "estimate", "none"}
  BY <1>3 DEF Start, StopWaiting, Finish, RejectInputs, Stop, Return
<1>4. ASSUME CtxEnd PROVE UNCHANGED <<cfg, learned, pc, results, err>> /\ ctxEnded' = TRUE
                          /\ pc # "returned"
  BY <1>4 DEF CtxEnd
<1>8. Len(results') \in Nat
  <2>1. results' \in Seq(Result)
    BY StepIInv DEF Next, IInv, TypeOK
  <2> QED BY <2>1, LenProperties
<1>5. CASE \E s \in Scenarios : Request(s)
  BY <1>1, <1>2, <1>5, <1>8
<1>6. CASE Start \/ StopWaiting \/ Finish \/ \E s \in Scenarios : RejectInputs(s)
  BY <1>1, <1>3, <1>6, <1>8 DEF CallErrors
<1>7. CASE CtxEnd
  BY <1>1, <1>4, <1>7, <1>8
<1> QED BY <1>5, <1>6, <1>7 DEF Loop

LEMMA ControlParts == ASSUME SInv, Control PROVE SParts'
<1> USE SystemConstants
<1>0. /\ IInv /\ WorkerTypeOK /\ AskedInv /\ ServeInv /\ TallyInv /\ LearnInv /\ RejectInv
      /\ UNCHANGED <<stage, bytes, ctx, begun, arrived, out, restarts>>
  BY DEF SInv, SParts, Control, tvars
<1>1. /\ UNCHANGED <<cfg, learned>> /\ pc # "returned" /\ Len(results) \in Nat
      /\ ctxEnded' = FALSE => ctxEnded = FALSE
      /\ err' \in CallErrors => err' = err
      /\ Len(results') \in Nat
      /\ pc' # "returned" => Len(results) <= Len(results')
      /\ pc' = "call" /\ pc # "wait" => pc = "call" /\ results' = results
      /\ pc = "wait" /\ pc' = "call" =>
            /\ Len(results') = Len(results) + 1 /\ Len(results') \in Calls
            /\ results'[Len(results')].bytes \in Sizes
  BY <1>0, ControlFacts DEF Control
<1>2. asked' = IF pc = "wait" /\ pc' = "call"
               THEN [asked EXCEPT ![Len(results')] = results'[Len(results')].bytes]
               ELSE asked
  BY DEF Control
<1>3. ASSUME NEW k \in Calls, asked[k] # 0 PROVE asked'[k] = asked[k]
  BY <1>0, <1>1, <1>2, <1>3 DEF AskedInv, WorkerTypeOK
<1>4. asked' \in [Calls -> Sizes \cup {0}]
  BY <1>0, <1>1, <1>2 DEF WorkerTypeOK
<1>5. WorkerTypeOK'
  BY <1>0, <1>4 DEF WorkerTypeOK
<1>6. AskedInv'
  <2>1. CASE pc = "wait" /\ pc' = "call"
    <3>1. /\ Len(results') = Len(results) + 1 /\ Len(results') \in Calls
          /\ results'[Len(results')].bytes \in Sizes /\ Len(results') \in Nat
      BY <1>1, <2>1
    <3>2. /\ asked'[Len(results')] = results'[Len(results')].bytes
          /\ \A k \in Calls : k # Len(results') => asked'[k] = asked[k]
      BY <1>0, <1>2, <2>1, <3>1 DEF WorkerTypeOK
    <3>3. \A k \in Calls : k \in Nat
      BY NAssumption DEF Calls
    <3>4. \A k \in Calls : asked'[k] # 0 => k <= Len(results')
      BY <1>0, <1>1, <2>1, <3>1, <3>2, <3>3 DEF AskedInv
    <3>5. results'[Len(results')].bytes # 0
      BY <3>1
    <3> QED BY <2>1, <3>1, <3>2, <3>4, <3>5 DEF AskedInv
  <2>2. CASE ~(pc = "wait" /\ pc' = "call")
    <3>1. asked' = asked /\ (pc' = "call" => pc = "call" /\ results' = results)
      BY <1>1, <1>2, <2>2
    <3>2. \A k \in Calls : k \in Nat
      BY NAssumption DEF Calls
    <3> QED BY <1>0, <1>1, <3>1, <3>2 DEF AskedInv
  <2> QED BY <2>1, <2>2
<1>7. ServeInv'
  BY <1>0, <1>1, <1>3 DEF ServeInv
<1>8. TallyInv'
  BY <1>0 DEF TallyInv, OfLength, OKs
<1>9. LearnInv'
  <2>1. PICK g : Source(g)
    BY <1>0 DEF LearnInv
  <2>2. \A i \in DOMAIN g : /\ g[i] \in Nat
                            /\ pc' # "returned" => g[i] <= Len(results')
                            /\ pc' = "call" => g[i] # Len(results')
    <3>1. \A i \in DOMAIN g : g[i] \in Nat /\ g[i] <= Len(results)
      BY <1>1, <2>1, NAssumption DEF Source, Calls
    <3>2. pc' = "call" /\ pc # "wait" => \A i \in DOMAIN g : g[i] # Len(results')
      BY <1>1, <2>1 DEF Source
    <3> QED BY <1>1, <3>1, <3>2
  <2>3. Source(g)'
    BY <1>0, <1>1, <2>1, <2>2 DEF Source
  <2> QED BY <2>3 DEF LearnInv
<1>10. RejectInv'
  BY <1>0, <1>1 DEF RejectInv, IInv, TypeOK
<1> QED BY <1>5, <1>6, <1>7, <1>8, <1>9, <1>10 DEF SParts

-----------------------------------------------------------------------------
(* The controller's call ends, with the worker's answer or without it.     *)

LEMMA CallEnds ==
    ASSUME IInv, pc = "call"
    PROVE  /\ results \in Seq(Result) /\ Len(results) \in Nat /\ learned \in Seq([bytes : Int, seconds : Times])
           /\ Len(learned) \in Nat /\ ctxEnded \in BOOLEAN /\ err = "none"
BY LenProperties DEF IInv, TypeOK, StartInv

LEMMA SucceedsParts ==
    ASSUME SInv, NEW t \in Times, CallSucceeds(t), out[Len(results)] = "OK",
           UNCHANGED <<tvars, asked, restarts>>
    PROVE  SParts'
<1> USE SystemConstants
<1>0. /\ IInv /\ WorkerTypeOK /\ AskedInv /\ ServeInv /\ TallyInv /\ LearnInv /\ RejectInv
      /\ UNCHANGED <<stage, bytes, ctx, begun, arrived, out, asked, restarts>>
  BY DEF SInv, SParts, tvars
<1>1. /\ pc = "call" /\ pc' = "wait" /\ UNCHANGED <<cfg, ctxEnded, err>>
      /\ results' = [results EXCEPT ![Len(results)].seconds = t]
      /\ learned' = Append(learned, [bytes |-> results[Len(results)].bytes, seconds |-> t])
  BY DEF CallSucceeds, Current
<1>2. PICK n \in Nat : n = Len(results)
  BY <1>0, <1>1, CallEnds
<1>3. Len(results') = n
  BY <1>0, <1>1, <1>2, CallEnds
<1>4. n \in Calls /\ asked[n] # 0 /\ asked[n] = results[n].bytes
  BY <1>0, <1>1, <1>2 DEF AskedInv
<1>5. out[n] = "OK" /\ bytes[n] = results[n].bytes
  BY <1>0, <1>2, <1>4 DEF ServeInv
<1>6. WorkerTypeOK'
  BY <1>0 DEF WorkerTypeOK
<1>7. AskedInv'
  BY <1>0, <1>1, <1>2, <1>3 DEF AskedInv
<1>8. ServeInv' /\ TallyInv'
  BY <1>0, <1>1 DEF ServeInv, TallyInv, OfLength, OKs
<1>9. RejectInv'
  BY <1>0, <1>1, CallEnds DEF RejectInv, CallErrors
<1>10. LearnInv'
  <2>1. PICK g : Source(g)
    BY <1>0 DEF LearnInv
  <2>2. PICK m \in Nat : m = Len(learned)
    BY <1>0, <1>1, CallEnds
  <2>3. /\ Len(learned') = m + 1 /\ learned'[m + 1].bytes = results[n].bytes
        /\ \A i \in 1..m : learned'[i] = learned[i]
    BY <1>0, <1>1, <1>2, <2>2, CallEnds
  <2> DEFINE h == [i \in 1..m + 1 |-> IF i = m + 1 THEN n ELSE g[i]]
  <2>4. /\ h \in [1..m + 1 -> Calls] /\ DOMAIN h = 1..m + 1 /\ DOMAIN g = 1..m
        /\ h[m + 1] = n /\ \A i \in 1..m : h[i] = g[i] /\ g[i] \in Calls
    <3>1. g \in [1..m -> Calls] /\ m \in Nat
      BY <2>1, <2>2 DEF Source
    <3>2. \A i \in 1..m + 1 : i # m + 1 => i \in 1..m
      BY <3>1
    <3>3. \A i \in 1..m : i \in 1..m + 1 /\ i # m + 1
      BY <3>1
    <3>4. m + 1 \in 1..m + 1
      BY <3>1
    <3> QED BY <1>4, <3>1, <3>2, <3>3, <3>4
  <2> HIDE DEF h
  <2>5. \A i \in 1..m : h[i] # n /\ h[i] \in Nat /\ h[i] <= n
    BY <1>1, <1>2, <2>1, <2>4, NAssumption DEF Source, Calls
  <2>6. \A i, j \in 1..m + 1 : h[i] = h[j] => i = j
    <3>1. \A i, j \in 1..m : h[i] = h[j] => i = j
      BY <2>1, <2>4 DEF Source
    <3> QED BY <2>2, <2>4, <2>5, <3>1
  <2>7. \A i \in 1..m + 1 : out[h[i]] = "OK" /\ bytes[h[i]] = learned'[i].bytes
    <3>1. \A i \in 1..m : out[h[i]] = "OK" /\ bytes[h[i]] = learned'[i].bytes
      BY <2>1, <2>3, <2>4 DEF Source
    <3> QED BY <1>5, <2>2, <2>3, <2>4, <3>1
  <2>8. \A i \in 1..m + 1 : h[i] <= n
    BY <1>2, <2>2, <2>4, <2>5
  <2>9. Source(h)'
    BY <1>0, <1>1, <1>3, <2>3, <2>4, <2>6, <2>7, <2>8 DEF Source
  <2> QED BY <2>9 DEF LearnInv
<1> QED BY <1>6, <1>7, <1>8, <1>9, <1>10 DEF SParts

LEMMA FailsParts ==
    ASSUME SInv, NEW e \in CallErrors, CallFails(e),
           e \in Misconfigured => cfg.peerAddr \notin Allowed,
           UNCHANGED <<tvars, asked, restarts>>
    PROVE  SParts'
<1> USE SystemConstants
<1>0. /\ IInv /\ WorkerTypeOK /\ AskedInv /\ ServeInv /\ TallyInv /\ LearnInv /\ RejectInv
      /\ UNCHANGED <<stage, bytes, ctx, begun, arrived, out, asked, restarts>>
  BY DEF SInv, SParts, tvars
<1>1. /\ pc = "call" /\ UNCHANGED <<cfg, ctxEnded, learned>>
      /\ \/ pc' = "returned" /\ (ctxEnded \/ e \in Misconfigured)
         \/ /\ pc' = "wait" /\ err' = err
            /\ results' = [results EXCEPT ![Len(results)].err = e]
  BY Zenon DEF CallFails, Stop, Return, Current
<1>2. PICK n \in Nat : n = Len(results)
  BY <1>0, <1>1, CallEnds
<1>3. pc' # "returned" => pc' = "wait" /\ Len(results') = n
  BY <1>0, <1>1, <1>2, CallEnds
<1>4. WorkerTypeOK'
  BY <1>0 DEF WorkerTypeOK
<1>5. AskedInv'
  BY <1>0, <1>1, <1>2, <1>3 DEF AskedInv
<1>6. ServeInv' /\ TallyInv'
  BY <1>0, <1>1 DEF ServeInv, TallyInv, OfLength, OKs
<1>7. RejectInv'
  <2>1. CASE pc' = "returned"
    BY <1>1, <2>1, Zenon DEF RejectInv
  <2>2. CASE pc' = "wait" /\ err' = err
    BY <1>0, <1>1, <2>2, CallEnds DEF RejectInv, CallErrors
  <2> QED BY <1>1, <2>1, <2>2
<1>8. LearnInv'
  <2>1. PICK g : Source(g)
    BY <1>0 DEF LearnInv
  <2>2. Source(g)'
    <3>1. pc' # "returned" => \A i \in DOMAIN g : g[i] <= Len(results')
      BY <1>1, <1>2, <1>3, <2>1 DEF Source
    <3>2. pc' # "call"
      BY <1>1
    <3> QED BY <1>0, <1>1, <2>1, <3>1, <3>2 DEF Source
  <2> QED BY <2>2 DEF LearnInv
<1> QED BY <1>4, <1>5, <1>6, <1>7, <1>8 DEF SParts

-----------------------------------------------------------------------------
(* The worker's steps: the controller does not move.                       *)

LEMMA ControllerParts ==
    ASSUME AskedInv, RejectInv, LearnInv, UNCHANGED <<vars, asked>>,
           \A k \in Calls : out[k] = "OK" => out'[k] = "OK" /\ bytes'[k] = bytes[k]
    PROVE  AskedInv' /\ RejectInv' /\ LearnInv'
<1>1. UNCHANGED <<cfg, ctxEnded, pc, results, err, learned, asked>>
  BY DEF vars
<1>2. AskedInv' /\ RejectInv'
  BY <1>1, Zenon DEF AskedInv, RejectInv
<1>3. PICK g : Source(g)
  BY DEF LearnInv
<1>4. Source(g)'
  BY <1>1, <1>3 DEF Source
<1> QED BY <1>2, <1>4 DEF LearnInv

LEMMA TallyKept ==
    ASSUME TallyInv, UNCHANGED <<arrived, begun>>,
           \A k \in Calls : out'[k] = "OK" <=> out[k] = "OK",
           begun \subseteq Calls,
           \A k \in Calls : k \in begun \/ out[k] = "OK" => bytes'[k] = bytes[k]
    PROVE  TallyInv'
<1> SUFFICES ASSUME NEW n \in Sizes
             PROVE  OfLength(n, OKs)' = OfLength(n, OKs) /\ OfLength(n, begun)' = OfLength(n, begun)
  BY DEF TallyInv
<1> QED BY DEF OfLength, OKs

LEMMA ArriveParts == ASSUME SInv, NEW k \in Calls, Arrive(k) PROVE SParts'
<1> USE SystemConstants
<1>0. /\ WorkerTypeOK /\ AskedInv /\ ServeInv /\ TallyInv /\ LearnInv /\ RejectInv
      /\ UNCHANGED <<vars, asked, restarts>> /\ UNCHANGED cfg
      /\ asked[k] # 0 /\ asked[k] \in Sizes /\ ~(asked[k] <= 0)
  <2>1. /\ WorkerTypeOK /\ AskedInv /\ ServeInv /\ TallyInv /\ LearnInv /\ RejectInv
        /\ UNCHANGED <<vars, asked, restarts>> /\ asked[k] # 0
    BY Zenon DEF SInv, SParts, Arrive
  <2>2. UNCHANGED cfg
    BY <2>1 DEF vars
  <2>3. asked[k] \in Sizes
    BY <2>1, Zenon DEF WorkerTypeOK
  <2>4. ~(asked[k] <= 0)
    <3>1. ASSUME NEW n \in Sizes PROVE ~(n <= 0)
      OBVIOUS
    <3> QED BY <2>3, <3>1, Zenon
  <2> QED BY <2>1, <2>2, <2>3, <2>4
<1> DEFINE r == [peer |-> cfg.peerAddr, bytes |-> asked[k]]
<1>1. T!Refuse(k, r) \/ T!Accept(k, r)
  BY DEF Arrive
<1>2. CASE T!Refuse(k, r)
  <2>1. PICK c \in Misconfigured : T!Return(k, c)
    BY <1>2 DEF T!Refuse, Misconfigured
  <2>2. /\ stage[k] = "new" /\ UNCHANGED <<bytes, ctx, begun, arrived>>
        /\ stage' = [stage EXCEPT ![k] = "done"] /\ out' = [out EXCEPT ![k] = c]
        /\ cfg.peerAddr \notin Allowed /\ c \in CallErrors /\ c # "OK"
    <3>1. r.bytes = asked[k] /\ r.peer = cfg.peerAddr
      OBVIOUS
    <3>2. ~(asked[k] <= 0)
      BY <1>0, Zenon
    <3> HIDE DEF r
    <3>3. r.peer \notin Allowed
      BY <1>2, <3>1, <3>2, PeersAssumption DEF T!Refuse
    <3> QED BY <1>2, <2>1, <3>1, <3>3 DEF T!Refuse, T!Return
  <2>3. /\ out[k] = None
        /\ \A l \in Calls : l # k => stage'[l] = stage[l] /\ out'[l] = out[l]
        /\ stage'[k] = "done" /\ out'[k] = c /\ k \notin begun
    BY <1>0, <2>2 DEF ServeInv, WorkerTypeOK
  <2>4. WorkerTypeOK'
    BY <1>0, <2>2 DEF WorkerTypeOK
  <2>5. AskedInv' /\ RejectInv' /\ LearnInv'
    BY <1>0, <2>2, <2>3, ControllerParts
  <2>6. TallyInv'
    BY <1>0, <2>2, <2>3, TallyKept DEF WorkerTypeOK
  <2>7. ServeInv'
    BY <1>0, <2>2, <2>3 DEF ServeInv
  <2> QED BY <2>4, <2>5, <2>6, <2>7 DEF SParts
<1>3. CASE T!Accept(k, r)
  <2>1. /\ stage[k] = "new" /\ UNCHANGED <<ctx, begun, arrived, out>> /\ cfg.peerAddr \in Allowed
        /\ stage' = [stage EXCEPT ![k] = "waiting"] /\ bytes' = [bytes EXCEPT ![k] = asked[k]]
    BY <1>3 DEF T!Accept
  <2>2. /\ out[k] = None /\ k \notin begun /\ stage'[k] = "waiting" /\ bytes'[k] = asked[k]
        /\ \A l \in Calls : l # k => stage'[l] = stage[l] /\ bytes'[l] = bytes[l]
    BY <1>0, <2>1 DEF ServeInv, WorkerTypeOK
  <2>3. WorkerTypeOK'
    BY <1>0, <2>1 DEF WorkerTypeOK
  <2>4. AskedInv' /\ RejectInv' /\ LearnInv'
    BY <1>0, <2>1, <2>2, ControllerParts
  <2>5. TallyInv'
    BY <1>0, <2>1, <2>2, TallyKept DEF WorkerTypeOK
  <2>6. ServeInv'
    BY <1>0, <2>1, <2>2 DEF ServeInv
  <2> QED BY <2>3, <2>4, <2>5, <2>6 DEF SParts
<1> QED BY <1>1, <1>2, <1>3

LEMMA BeginParts == ASSUME SInv, NEW k \in Calls, Begin(k) PROVE SParts'
<1> USE SystemConstants
<1>0. /\ WorkerTypeOK /\ AskedInv /\ ServeInv /\ TallyInv /\ LearnInv /\ RejectInv
      /\ UNCHANGED <<vars, asked, restarts, bytes, ctx, arrived, out>> /\ UNCHANGED cfg
      /\ stage[k] = "waiting" /\ stage' = [stage EXCEPT ![k] = "sending"]
      /\ begun' = begun \cup {k}
  BY DEF SInv, SParts, Begin, T!Begin, vars
<1>1. WorkerTypeOK'
  BY <1>0 DEF WorkerTypeOK
<1>2. AskedInv' /\ RejectInv' /\ LearnInv'
  BY <1>0, ControllerParts
<1>3. ServeInv'
  BY <1>0 DEF ServeInv, WorkerTypeOK
<1>4. TallyInv'
  <2> SUFFICES ASSUME NEW n \in Sizes
               PROVE  /\ OfLength(n, OKs)' = OfLength(n, OKs)
                      /\ Cardinality(OfLength(n, begun)) <= Cardinality(OfLength(n, begun)')
                      /\ Cardinality(OfLength(n, begun)) \in Int
                      /\ Cardinality(OfLength(n, begun)') \in Int
                      /\ arrived[n] \in Int
    BY <1>0 DEF TallyInv
  <2>1. OfLength(n, OKs)' = OfLength(n, OKs)
    BY <1>0 DEF OfLength, OKs
  <2>2. /\ OfLength(n, begun) \in SUBSET OfLength(n, begun)'
        /\ OfLength(n, begun) \in SUBSET Calls /\ OfLength(n, begun)' \in SUBSET Calls
    BY <1>0 DEF OfLength, WorkerTypeOK
  <2>3. /\ IsFiniteSet(OfLength(n, begun)') /\ Cardinality(OfLength(n, begun)') \in 0..N
        /\ Cardinality(OfLength(n, begun)) \in 0..N
    BY <2>2, CallsFinite
  <2>4. Cardinality(OfLength(n, begun)) <= Cardinality(OfLength(n, begun)')
    BY <2>2, <2>3, FS_Subset
  <2> QED BY <1>0, <2>1, <2>3, <2>4, NAssumption DEF WorkerTypeOK
<1> QED BY <1>1, <1>2, <1>3, <1>4 DEF SParts

LEMMA ReturnsParts == ASSUME SInv, NEW k \in Calls, Returns(k) PROVE SParts'
<1> USE SystemConstants
<1>0. /\ WorkerTypeOK /\ AskedInv /\ ServeInv /\ TallyInv /\ LearnInv /\ RejectInv
      /\ UNCHANGED <<vars, asked, restarts>>
      /\ T!Succeed(k) \/ T!Fail(k)
  BY Zenon DEF SInv, SParts, Returns
<1>1. UNCHANGED cfg
  BY <1>0 DEF vars
<1>2. stage[k] \in {"waiting", "sending"} /\ out[k] = None
  BY <1>0 DEF T!Succeed, T!Fail, ServeInv
<1>3. PICK c \in {"OK"} \cup CallErrors :
        /\ T!Return(k, c) /\ c \notin Misconfigured
        /\ c = "OK" => stage[k] = "sending" /\ T!Succeed(k)
  <2>1. CASE T!Succeed(k)
    BY <2>1 DEF T!Succeed, Misconfigured
  <2>2. CASE T!Fail(k)
    <3> DEFINE c == IF ctx[k] = "live" THEN "Unavailable" ELSE ctx[k]
    <3>1. c \in CallErrors /\ c \notin Misconfigured /\ c # "OK"
      <4>1. ctx[k] = "live" \/ ctx[k] \in CtxErrs
        BY <1>0 DEF WorkerTypeOK
      <4> QED BY <4>1 DEF CallErrors, Misconfigured
    <3>2. T!Return(k, c)
      BY <2>2 DEF T!Fail
    <3> HIDE DEF c
    <3> QED BY <3>1, <3>2
  <2> QED BY <1>0, <2>1, <2>2
<1>4. /\ stage' = [stage EXCEPT ![k] = "done"] /\ out' = [out EXCEPT ![k] = c]
      /\ UNCHANGED <<bytes, ctx, begun, arrived>>
  BY <1>3 DEF T!Return
<1>5. /\ stage'[k] = "done" /\ out'[k] = c
      /\ \A l \in Calls : l # k => stage'[l] = stage[l] /\ out'[l] = out[l]
  BY <1>0, <1>4 DEF WorkerTypeOK
<1>6. WorkerTypeOK'
  BY <1>0, <1>3, <1>4 DEF WorkerTypeOK
<1>7. AskedInv' /\ RejectInv' /\ LearnInv'
  BY <1>0, <1>2, <1>4, <1>5, ControllerParts
<1>8. ServeInv'
  BY <1>0, <1>1, <1>2, <1>3, <1>4, <1>5 DEF ServeInv
<1>9. TallyInv'
  <2>1. CASE c # "OK"
    BY <1>0, <1>2, <1>4, <1>5, <2>1, TallyKept DEF WorkerTypeOK
  <2>2. CASE c = "OK"
    <3> SUFFICES ASSUME NEW n \in Sizes
                 PROVE  Cardinality(OfLength(n, OKs)') <= arrived[n]
      BY <1>0, <1>4 DEF TallyInv, OfLength
    <3>1. OfLength(n, OKs)' = IF bytes[k] = n THEN OfLength(n, OKs) \cup {k} ELSE OfLength(n, OKs)
      BY <1>2, <1>4, <1>5, <2>2 DEF OfLength, OKs
    <3>2. k \notin OfLength(n, OKs) /\ OfLength(n, OKs) \in SUBSET Calls
      BY <1>2 DEF OfLength, OKs
    <3>3. IsFiniteSet(OfLength(n, OKs)) /\ Cardinality(OfLength(n, OKs)) \in 0..N
      BY <3>2, CallsFinite
    <3>4. bytes[k] = n => Cardinality(OfLength(n, OKs)) < arrived[n]
      <4>1. Cardinality(T!OfLength(bytes[k], T!OKs)) < arrived[bytes[k]]
        BY <1>3, <2>2, SameCardinality DEF T!Succeed
      <4>2. T!OfLength(bytes[k], T!OKs) = OfLength(bytes[k], OKs)
        BY DEF T!OfLength, T!OKs, OfLength, OKs
      <4> QED BY <4>1, <4>2
    <3>5. Cardinality(OfLength(n, OKs)) <= arrived[n] /\ arrived[n] \in Nat
      BY <1>0 DEF TallyInv, WorkerTypeOK
    <3>6. Cardinality(OfLength(n, OKs) \cup {k}) = Cardinality(OfLength(n, OKs)) + 1
      BY <3>2, <3>3, FS_AddElement
    <3> QED BY <3>1, <3>3, <3>4, <3>5, <3>6, NAssumption
  <2> QED BY <2>1, <2>2
<1> QED BY <1>6, <1>7, <1>8, <1>9 DEF SParts

LEMMA CtxEndParts == ASSUME SInv, NEW k \in Calls, HandlerCtxEnd(k) PROVE SParts'
<1>0. /\ WorkerTypeOK /\ AskedInv /\ ServeInv /\ TallyInv /\ LearnInv /\ RejectInv
      /\ UNCHANGED <<vars, asked, restarts, stage, bytes, begun, arrived, out>>
      /\ \E e \in CtxErrs : ctx' = [ctx EXCEPT ![k] = e]
  BY Zenon DEF SInv, SParts, HandlerCtxEnd, T!CtxEnd
<1>1. UNCHANGED cfg
  BY <1>0 DEF vars
<1>2. WorkerTypeOK' /\ ServeInv'
  BY <1>0, <1>1 DEF WorkerTypeOK, ServeInv
<1>3. AskedInv' /\ RejectInv' /\ LearnInv'
  BY <1>0, ControllerParts
<1>4. TallyInv'
  BY <1>0 DEF TallyInv, OfLength, OKs
<1> QED BY <1>2, <1>3, <1>4 DEF SParts

LEMMA DataParts == ASSUME SInv, NEW n \in Sizes, Data(n) PROVE SParts'
<1>0. /\ WorkerTypeOK /\ AskedInv /\ ServeInv /\ TallyInv /\ LearnInv /\ RejectInv
      /\ UNCHANGED <<vars, asked, restarts, stage, bytes, ctx, begun, out>>
      /\ arrived[n] < T!Cardinality(T!OfLength(n, begun))
      /\ arrived' = [arrived EXCEPT ![n] = @ + 1]
  BY Zenon DEF SInv, SParts, Data, T!Arrive
<1>1. UNCHANGED cfg
  BY <1>0 DEF vars
<1>2. WorkerTypeOK' /\ ServeInv'
  BY <1>0, <1>1 DEF WorkerTypeOK, ServeInv
<1>3. AskedInv' /\ RejectInv' /\ LearnInv'
  BY <1>0, ControllerParts
<1>4. TallyInv'
  <2> SUFFICES ASSUME NEW m \in Sizes
               PROVE  /\ Cardinality(OfLength(m, OKs)) <= arrived'[m]
                      /\ arrived'[m] <= Cardinality(OfLength(m, begun))
    BY <1>0 DEF TallyInv, OfLength, OKs
  <2>1. OfLength(m, OKs) \in SUBSET Calls /\ OfLength(m, begun) \in SUBSET Calls
    BY <1>0 DEF OfLength, OKs, WorkerTypeOK
  <2>2. /\ Cardinality(OfLength(m, OKs)) \in 0..N
        /\ Cardinality(OfLength(m, begun)) \in 0..N
    BY <2>1, CallsFinite
  <2>3. arrived[n] < Cardinality(OfLength(n, begun))
    BY <1>0, SameCardinality DEF T!OfLength, OfLength
  <2>4. /\ arrived[m] \in Nat /\ Cardinality(OfLength(m, OKs)) <= arrived[m]
        /\ arrived[m] <= Cardinality(OfLength(m, begun))
        /\ arrived'[m] = IF m = n THEN arrived[m] + 1 ELSE arrived[m]
    BY <1>0 DEF TallyInv, WorkerTypeOK
  <2> QED BY <2>2, <2>3, <2>4, NAssumption
<1> QED BY <1>2, <1>3, <1>4 DEF SParts

LEMMA RestartParts == ASSUME SInv, Restart PROVE SParts'
<1> USE SystemConstants
<1>0. /\ WorkerTypeOK /\ AskedInv /\ ServeInv /\ TallyInv /\ LearnInv /\ RejectInv
      /\ UNCHANGED <<vars, bytes, ctx, begun, arrived, out, asked>>
      /\ restarts < MaxRestarts /\ restarts' = restarts + 1
      /\ stage' = [k \in Calls |-> IF stage[k] = "new" THEN "new" ELSE "done"]
  BY Zenon DEF SInv, SParts, Restart
<1>1. UNCHANGED cfg
  BY <1>0 DEF vars
<1>2. WorkerTypeOK' /\ ServeInv'
  BY <1>0, <1>1, RestartsAssumption DEF WorkerTypeOK, ServeInv
<1>3. AskedInv' /\ RejectInv' /\ LearnInv'
  BY <1>0, ControllerParts
<1>4. TallyInv'
  BY <1>0 DEF TallyInv, OfLength, OKs
<1> QED BY <1>2, <1>3, <1>4 DEF SParts

-----------------------------------------------------------------------------
LEMMA StepSInv == SInv /\ [SNext]_svars => SInv'
<1> SUFFICES ASSUME SInv, [SNext]_svars PROVE SInv'
  OBVIOUS
<1> USE SystemConstants
<1>0. IInv /\ WorkerTypeOK /\ ServeInv
  BY Zenon DEF SInv, SParts
<1>1. IInv'
  BY <1>0, StepsOfRun, StepIInv
<1>2. ASSUME NEW k \in Calls, Reply(k) PROVE SParts'
  <2>1. /\ k = Len(results) /\ UNCHANGED <<tvars, asked, restarts>>
        /\ out[k] = "OK" \/ out[k] \in CallErrors
        /\ out[k] \in Misconfigured => cfg.peerAddr \notin Allowed
    BY <1>0, <1>2 DEF Reply, Waiting, WorkerTypeOK, ServeInv
  <2>2. CASE out[k] = "OK"
    BY <1>2, <2>1, <2>2, SucceedsParts DEF Reply
  <2>3. CASE out[k] \in CallErrors
    BY <1>2, <2>1, <2>3, FailsParts DEF Reply
  <2> QED BY <2>1, <2>2, <2>3
<1>3. ASSUME NEW k \in Calls, GiveUp(k) \/ Disconnect(k) PROVE SParts'
  <2>1. /\ UNCHANGED <<tvars, asked, restarts>>
        /\ \E e \in CallErrors : e \notin Misconfigured /\ CallFails(e)
    BY <1>3 DEF GiveUp, Disconnect, CallErrors, Misconfigured
  <2> QED BY <2>1, FailsParts
<1>4. ASSUME UNCHANGED svars PROVE SParts'
  <2>1. /\ AskedInv /\ TallyInv /\ LearnInv /\ RejectInv
        /\ UNCHANGED <<vars, asked, restarts, stage, bytes, ctx, begun, arrived, out>>
    BY <1>4, Zenon DEF SInv, SParts, svars, tvars
  <2>2. UNCHANGED cfg
    BY <2>1 DEF vars
  <2>3. AskedInv' /\ RejectInv' /\ LearnInv'
    BY <2>1, ControllerParts
  <2>4. WorkerTypeOK' /\ ServeInv' /\ TallyInv'
    BY <1>0, <2>1, <2>2 DEF WorkerTypeOK, ServeInv, TallyInv, OfLength, OKs
  <2> QED BY <2>3, <2>4 DEF SParts
<1>5. SParts'
  BY <1>2, <1>3, <1>4, ControlParts, ArriveParts, BeginParts, ReturnsParts, CtxEndParts,
     DataParts, RestartParts DEF SNext
<1> QED BY <1>1, <1>5 DEF SInv

(* Controller, gRPC and worker agree on what was asked, sent and learned,  *)
(* whatever was given up or lost between them.                             *)
THEOREM SystemInvariance == SSpec => []SInv
<1> QED BY InitSInv, StepSInv, PTL DEF SSpec

(* Joined to a worker the controller takes the steps of a controller and   *)
(* no others, so all that is proved of it holds there.                     *)
THEOREM SystemRunsTheController == SSpec => Spec
<1>1. SInit => Init
  BY DEF SInit
<1>2. SInv /\ [SNext]_svars => [Next]_vars
  BY StepsOfRun DEF SInv, SParts
<1> QED BY <1>1, <1>2, SystemInvariance, PTL DEF SSpec, Spec

(* System's variables keep their types, and no length arrives more often   *)
(* than there are requests.                                                *)
THEOREM SystemIsTypeCorrect == SSpec => []STypeOK
<1>1. SInv => STypeOK
  <2> SUFFICES ASSUME SInv PROVE STypeOK
    OBVIOUS
  <2>1. TypeOK /\ WorkerTypeOK /\ TallyInv
    BY DEF SInv, SParts, IInv
  <2>2. ASSUME NEW n \in Sizes PROVE arrived[n] \in 0..N
    <3>1. OfLength(n, begun) \in SUBSET Calls
      BY <2>1 DEF OfLength, WorkerTypeOK
    <3>2. Cardinality(OfLength(n, begun)) \in 0..N
      BY <3>1, CallsFinite
    <3> QED BY <2>1, <3>2, NAssumption DEF TallyInv, WorkerTypeOK
  <2>3. arrived \in [Sizes -> 0..N]
    BY <2>1, <2>2 DEF WorkerTypeOK
  <2> QED BY <2>1, <2>3 DEF STypeOK, WorkerTypeOK
<1> QED BY <1>1, SystemInvariance, PTL

(* Every measurement is of a transfer of that length that arrived, and no  *)
(* more arrive than were asked for.                                        *)
THEOREM MeasurementsAreDeliveries == SSpec => []DeliveredAsAsked
<1>1. SInv => DeliveredAsAsked
  <2> SUFFICES ASSUME SInv, NEW n \in Sizes
               PROVE  LearnedOf(n) <= arrived[n] /\ arrived[n] <= AskedOf(n)
    BY DEF DeliveredAsAsked
  <2>1. IInv /\ WorkerTypeOK /\ ServeInv /\ TallyInv /\ LearnInv
    BY DEF SInv, SParts
  <2> DEFINE S == {i \in DOMAIN learned : learned[i].bytes = n}
             D == OfLength(n, OKs)
             B == OfLength(n, begun)
             A == {k \in Calls : asked[k] = n}
  <2>2. D \in SUBSET Calls /\ B \in SUBSET Calls /\ A \in SUBSET Calls /\ B \in SUBSET A
    BY <2>1 DEF OfLength, OKs, WorkerTypeOK, ServeInv
  <2>3. PICK g : Source(g)
    BY <2>1 DEF LearnInv
  <2>4. DOMAIN learned = 1..Len(learned)
    BY <2>1 DEF IInv, TypeOK
  <2> DEFINE f == [i \in S |-> g[i]]
  <2>5. f \in Injection(S, D)
    <3>1. \A i \in S : g[i] \in D
      BY <2>3, <2>4 DEF Source, OfLength, OKs
    <3>2. \A i, j \in S : g[i] = g[j] => i = j
      BY <2>3, <2>4 DEF Source
    <3> HIDE DEF S, D
    <3> QED BY <3>1, <3>2 DEF Injection, IsInjective
  <2> HIDE DEF S, D, B, A, f
  <2>6. Cardinality(S) <= Cardinality(D)
    BY <2>2, <2>5, CallsFinite, FS_Injection
  <2>7. Cardinality(B) <= Cardinality(A)
    BY <2>2, CallsFinite, FS_Subset
  <2>8. Cardinality(D) \in Nat /\ Cardinality(B) \in Nat /\ Cardinality(A) \in Nat
    BY <2>2, CallsFinite, NAssumption
  <2>9. Cardinality(S) \in Nat
    BY <2>2, <2>5, CallsFinite, FS_Injection, FS_CardinalityType
  <2>10. Cardinality(D) <= arrived[n] /\ arrived[n] <= Cardinality(B) /\ arrived[n] \in Nat
    BY <2>1 DEF TallyInv, WorkerTypeOK, D, B
  <2>11. LearnedOf(n) = Cardinality(S) /\ AskedOf(n) = Cardinality(A)
    BY DEF LearnedOf, AskedOf, S, A
  <2> QED BY <2>6, <2>7, <2>8, <2>9, <2>10, <2>11
<1> QED BY <1>1, SystemInvariance, PTL

(* A rejection that ends the run comes before anything was sent.           *)
THEOREM RejectionComesFirst == SSpec => []RejectedFromTheStart
<1>1. SInv => RejectedFromTheStart
  <2> SUFFICES ASSUME SInv, err \in CallErrors, ~ctxEnded
               PROVE  cfg.peerAddr \notin Allowed /\ learned = <<>> /\ begun = {}
    BY DEF RejectedFromTheStart
  <2>1. IInv /\ WorkerTypeOK /\ ServeInv /\ LearnInv /\ cfg.peerAddr \notin Allowed
    BY DEF SInv, SParts, RejectInv
  <2>2. begun = {}
    BY <2>1 DEF ServeInv, WorkerTypeOK
  <2>3. PICK g : Source(g)
    BY <2>1 DEF LearnInv
  <2>4. \A k \in Calls : out[k] # "OK"
    BY <2>1, <2>2 DEF ServeInv
  <2>5. PICK m \in Nat : m = Len(learned)
    BY <2>1, LenProperties DEF IInv, TypeOK
  <2>6. 1 \notin 1..m
    BY <2>3, <2>4, <2>5 DEF Source
  <2>7. Len(learned) = 0
    BY <2>5, <2>6
  <2> QED BY <2>1, <2>2, <2>7 DEF IInv, TypeOK
<1> QED BY <1>1, SystemInvariance, PTL

-----------------------------------------------------------------------------
(* The controller against the simulator.  A turn of RunAdaptive is a turn  *)
(* of Run without a call, or the answer of one with; until the answer,     *)
(* what RunAdaptive counts is what Run counted when it decided.            *)

LEMMA PolicyScores ==
    /\ \A c : Policy!ChooseLowestTTFT(c) = ChooseLowestTTFT(c)
    /\ \A in : Policy!Estimate(in) = Estimate(in)
    /\ \A in : Policy!ValidInputs(in) <=> ValidInputs(in)
    /\ \A t, b : Policy!Believed(t, b) = Believed(t, b)
    /\ \A t : Policy!Bytes(t) = Bytes(t)
    /\ \A t : Policy!TransferDuration(t) = TransferDuration(t)
<1>1. \A c : Policy!ChooseLowestTTFT(c) = ChooseLowestTTFT(c)
  BY Zenon DEF Policy!ChooseLowestTTFT, ChooseLowestTTFT
<1>2. \A d : Policy!Wrap(d) = Wrap(d)
  BY DEF Policy!Wrap, Wrap
<1>3. \A a, u : Policy!DurationFor(a, u) = DurationFor(a, u)
  BY DEF Policy!DurationFor, DurationFor
<1>4. \A d, e : Policy!Later(d, e) = Later(d, e)
  BY DEF Policy!Later, Later
<1>5. \A in : Policy!Estimate(in) = Estimate(in)
  BY <1>2, <1>3, <1>4, Zenon DEF Policy!Estimate, Estimate
<1>6. \A in : Policy!ValidInputs(in) <=> ValidInputs(in)
  BY DEF Policy!ValidInputs, ValidInputs, Policy!IsFinitePositive, IsFinitePositive
<1>7. \A t, b : Policy!Believed(t, b) = Believed(t, b)
  BY Zenon DEF Policy!Believed, Believed
<1>8. \A t : Policy!Bytes(t) = Bytes(t)
  BY DEF Policy!Bytes, Bytes
<1>9. \A t : Policy!TransferDuration(t) = TransferDuration(t)
  BY <1>2, <1>3, <1>8 DEF Policy!TransferDuration, TransferDuration
<1> QED BY <1>1, <1>5, <1>6, <1>7, <1>8, <1>9

LEMMA PolicyRecords ==
    /\ \A t, b : Policy!Choice(t, b) = Choice(t, b)
    /\ \A t, b, e : Policy!Record(t, b, e) = Record(t, b, e)
<1>1. \A t, b : Policy!Choice(t, b) = Choice(t, b)
  BY PolicyScores, Zenon DEF Policy!Choice, Choice
<1>2. \A c, e : Policy!TtftOf(c, e) = TtftOf(c, e)
  BY Zenon DEF Policy!TtftOf, TtftOf
<1>3. \A t, e : Policy!ActualTTFT(t, e) = ActualTTFT(t, e)
  BY <1>2, PolicyScores, Zenon DEF Policy!ActualTTFT, ActualTTFT
<1>4. \A t : Policy!BestActual(t) = BestActual(t)
  BY PolicyScores, Zenon DEF Policy!BestActual, BestActual
<1>5. \A d : Policy!Wrap(d) = Wrap(d)
  BY DEF Policy!Wrap, Wrap
<1>6. \A t, e : Policy!Regret(t, e) = Regret(t, e)
  BY <1>3, <1>4, <1>5, Zenon DEF Policy!Regret, Regret
<1>7. \A t, b, e : Policy!Record(t, b, e) = Record(t, b, e)
  BY <1>1, <1>2, <1>3, <1>6, PolicyScores, Zenon DEF Policy!Record, Record
<1> QED BY <1>1, <1>7

(* What Run gives to Estimate is the scenario as the belief sees it.       *)
LEMMA SameInputs ==
    ASSUME NEW t \in Scenarios
    PROVE  /\ Estimate(Inputs(t)) = Estimate(Believed(t, belief))
           /\ ValidInputs(Inputs(t)) <=> ValidInputs(Believed(t, belief))
<1>1. t \in Policy!Inputs
  BY BenchAssumption
<1> DEFINE a == Inputs(t)
           b == Believed(t, belief)
<1>2. /\ a.queueA = b.queueA /\ a.queueB = b.queueB
      /\ a.prefixTokens = b.prefixTokens /\ a.suffixTokens = b.suffixTokens
      /\ a.prefillA = b.prefillA /\ a.prefillB = b.prefillB
      /\ a.bytesPerToken = b.bytesPerToken
      /\ a.secondsPerByte = b.secondsPerByte /\ a.startup = b.startup
  BY <1>1 DEF Policy!Inputs, Inputs, Believed
<1> HIDE DEF a, b
<1>3. Estimate(a) = Estimate(b)
  BY <1>2, Zenon DEF Estimate
<1>4. ValidInputs(a) <=> ValidInputs(b)
  BY <1>2 DEF ValidInputs, IsFinitePositive
<1> QED BY <1>3, <1>4 DEF a, b

(* A scenario that is valid to a belief is valid as it is.                 *)
LEMMA TruthIsValid ==
    ASSUME NEW ts \in Workloads, NEW i \in 1..N, ValidInputs(Believed(ts[i], belief))
    PROVE  ValidInputs(ts[i])
<1> DEFINE t == ts[i]
           b == Believed(t, belief)
<1>1. t \in Policy!Inputs /\ t.secondsPerByte > 0 /\ t.startup >= 0
  BY BenchAssumption
<1>2. /\ t.queueA = b.queueA /\ t.queueB = b.queueB
      /\ t.prefixTokens = b.prefixTokens /\ t.suffixTokens = b.suffixTokens
      /\ t.prefillA = b.prefillA /\ t.prefillB = b.prefillB
      /\ t.bytesPerToken = b.bytesPerToken
  BY <1>1 DEF Policy!Inputs, Believed
<1>3. ValidInputs(b)
  OBVIOUS
<1> HIDE DEF t, b
<1>4. ValidInputs(t)
  BY <1>1, <1>2, <1>3 DEF ValidInputs, IsFinitePositive
<1> QED BY <1>4 DEF t

LEMMA FunctionAppended ==
    ASSUME NEW n \in Nat, NEW f, f = [i \in 1..n |-> f[i]],
           NEW g, g = [i \in 1..n + 1 |-> g[i]], \A i \in 1..n : g[i] = f[i]
    PROVE  Len(f) = n /\ g = Append(f, g[n + 1])
<1> DEFINE V == {g[i] : i \in 1..n + 1}
<1>1. f \in [1..n -> V] /\ g \in [1..n + 1 -> V] /\ g[n + 1] \in V
  OBVIOUS
<1> HIDE DEF V
<1>2. f \in Seq(V) /\ g \in Seq(V) /\ Len(f) = n /\ Len(g) = n + 1
  BY <1>1
<1>3. /\ Append(f, g[n + 1]) \in Seq(V) /\ Len(Append(f, g[n + 1])) = n + 1
      /\ \A i \in 1..n : Append(f, g[n + 1])[i] = f[i]
      /\ Append(f, g[n + 1])[n + 1] = g[n + 1]
  BY <1>1, <1>2, AppendProperties
<1>4. \A i \in 1..n + 1 : Append(f, g[n + 1])[i] = g[i]
  <2>1. \A i \in 1..n + 1 : i \in 1..n \/ i = n + 1
    OBVIOUS
  <2>2. \A i \in 1..n : Append(f, g[n + 1])[i] = g[i]
    BY <1>3, Zenon
  <2> QED BY <1>3, <2>1, <2>2, Zenon
<1> QED BY <1>2, <1>3, <1>4, SeqEqual

LEMMA WholeSubSeq ==
    ASSUME NEW V, NEW rs \in Seq(V) PROVE SubSeq(rs, 1, Len(rs)) = rs
<1>1. Len(rs) \in Nat /\ \A i \in 1..Len(rs) : rs[i] \in V
  BY ElementOfSeq, LenProperties
<1>2. /\ SubSeq(rs, 1, Len(rs)) \in Seq(V) /\ Len(SubSeq(rs, 1, Len(rs))) = Len(rs)
      /\ \A i \in 1..Len(rs) : SubSeq(rs, 1, Len(rs))[i] = rs[i]
  BY <1>1, SubSeqProperties
<1> QED BY <1>2, SeqEqual

LEMMA LastAppended ==
    ASSUME NEW V, NEW rs \in Seq(V), NEW n \in Nat, Len(rs) = n + 1
    PROVE  rs = Append(SubSeq(rs, 1, n), rs[n + 1])
<1>1. \A i \in 1..n + 1 : rs[i] \in V
  BY ElementOfSeq
<1>2. /\ SubSeq(rs, 1, n) \in Seq(V) /\ Len(SubSeq(rs, 1, n)) = n
      /\ \A i \in 1..n : SubSeq(rs, 1, n)[i] = rs[i]
  BY <1>1, SubSeqProperties
<1>3. /\ Append(SubSeq(rs, 1, n), rs[n + 1]) \in Seq(V)
      /\ Len(Append(SubSeq(rs, 1, n), rs[n + 1])) = n + 1
      /\ \A i \in 1..n : Append(SubSeq(rs, 1, n), rs[n + 1])[i] = SubSeq(rs, 1, n)[i]
      /\ Append(SubSeq(rs, 1, n), rs[n + 1])[n + 1] = rs[n + 1]
  BY <1>1, <1>2, AppendProperties
<1>4. \A i \in 1..n + 1 : Append(SubSeq(rs, 1, n), rs[n + 1])[i] = rs[i]
  BY <1>2, <1>3
<1> QED BY <1>3, <1>4, SeqEqual

(* A count back to the last transfer is the number of entries after it.    *)
LEMMA CountsBack ==
    ASSUME NEW rs, NEW n \in Nat, NEW c \in 0..n,
           \A l \in n - c + 1..n : rs[l].action # "transfer",
           c < n => rs[n - c].action = "transfer"
    PROVE  Cardinality({j \in 1..n : \A i \in j..n : rs[i].action # "transfer"}) = c
<1>1. {j \in 1..n : \A i \in j..n : rs[i].action # "transfer"} = n - c + 1..n
  OBVIOUS
<1>2. Cardinality(n - c + 1..n) = c
  BY FS_Interval
<1> QED BY <1>1, <1>2

-----------------------------------------------------------------------------
(* What the learner believed when each request was decided is on record,   *)
(* and one that waits for its answer was to transfer by RunAdaptive's      *)
(* count, which is still that of before.                                   *)
BenchInv ==
    /\ truths \in Workloads /\ down = FALSE
    /\ held \in Seq(Beliefs) /\ Len(held) = Last
    /\ \A i \in 1..Last : results[i].bytes = Bytes(truths[i])
    /\ pc = "call" =>
          /\ held[Last] = belief
          /\ ValidInputs(truths[Last]) /\ ValidInputs(Believed(truths[Last], belief))
          /\ (K > 0 /\ SinceTransfer >= K) \/ Choice(truths[Last], belief) = "transfer"

LEMMA WorkloadFacts ==
    ASSUME NEW ts \in Workloads
    PROVE  /\ ts \in [1..N -> Scenarios] /\ Len(ts) = N
           /\ \A i \in 1..N : ts[i] \in Scenarios /\ Bytes(ts[i]) > 0
<1>1. ts \in [1..N -> Scenarios] /\ \A i \in 1..N : Bytes(ts[i]) > 0
  BY BenchAssumption
<1>2. ts \in Seq(Scenarios) /\ Len(ts) = N
  BY <1>1, NAssumption
<1> QED BY <1>1, <1>2

LEMMA BenchFacts ==
    ASSUME IInv, BenchInv
    PROVE  /\ Last \in 0..N /\ DOMAIN results = 1..Last /\ K \in Int
           /\ results \in Seq(Result) /\ \A i \in 1..Last : results[i] \in Result
           /\ \A i \in 1..Last : Tried(results[i]) <=> results[i].action = "transfer"
<1>1. /\ Last \in 0..N /\ DOMAIN results = 1..Last /\ K \in Int /\ results \in Seq(Result)
  BY KIsInt, LenProperties, NAssumption DEF IInv, TypeOK, Last
<1>2. \A i \in 1..Last : results[i] \in Result
  BY <1>1, ElementOfSeq DEF Last
<1>3. \A i \in 1..Last : results[i].bytes > 0
  BY <1>1, WorkloadFacts DEF BenchInv
<1> QED BY <1>1, <1>2, <1>3 DEF Tried

(* Between calls the two counts are one, which is how many entries back    *)
(* the last transfer is.                                                   *)
LEMMA CountsAgree ==
    ASSUME IInv, BenchInv, pc = "wait"
    PROVE  /\ sinceTransfer \in 0..Last
           /\ Cardinality({j \in 1..Last :
                   \A i \in j..Last : results[i].action # "transfer"}) = sinceTransfer
<1>1. /\ Last \in Nat
      /\ \A i \in 1..Last : Tried(results[i]) <=> results[i].action = "transfer"
  BY BenchFacts
<1>2. /\ sinceTransfer \in 0..Last
      /\ \A l \in Last - sinceTransfer + 1..Last : ~Tried(results[l])
      /\ sinceTransfer < Last => Tried(results[Last - sinceTransfer])
  BY <1>1 DEF IInv, TypeOK, CountInv
<1>3. /\ \A l \in Last - sinceTransfer + 1..Last : results[l].action # "transfer"
      /\ sinceTransfer < Last => results[Last - sinceTransfer].action = "transfer"
  BY <1>1, <1>2
<1> QED BY <1>1, <1>2, <1>3, CountsBack

(* What RunAdaptive records of the requests that are over, as a sequence.  *)
LEMMA OutcomesFacts ==
    ASSUME IInv
    PROVE  /\ DOMAIN Finished = 1..Len(Finished) /\ Len(Finished) \in Nat
           /\ Outcomes = [i \in 1..Len(Finished) |-> Outcomes[i]]
           /\ \A i \in 1..Len(Finished) :
                  Outcomes[i] = Record(truths[i], held[i], Finished[i].action)
           /\ Len(Outcomes) = Len(Finished)
<1>1. Finished \in Seq(Result)
  BY FinishedFacts
<1>2. DOMAIN Finished = 1..Len(Finished) /\ Len(Finished) \in Nat
  BY <1>1, LenProperties
<1>3. Outcomes = [i \in 1..Len(Finished) |-> Record(truths[i], held[i], Finished[i].action)]
  BY <1>2 DEF Outcomes
<1> DEFINE n == Len(Finished)
           V == {Outcomes[i] : i \in 1..n}
<1>4. n \in Nat /\ Outcomes = [i \in 1..n |-> Outcomes[i]]
  BY <1>2, <1>3
<1> HIDE DEF n
<1>5. Outcomes \in [1..n -> V]
  BY <1>4
<1> HIDE DEF V
<1>6. Outcomes \in Seq(V) /\ Len(Outcomes) = n
  BY <1>4, <1>5
<1> QED BY <1>2, <1>3, <1>4, <1>6 DEF n

(* A turn of RunAdaptive: request n + 1 of scenario t, decided with belief *)
(* and executed as executed.                                               *)
Turn(n, t, executed) ==
    /\ pc \in {"wait", "call"} /\ pc' \in {"wait", "call"}
    /\ n < N /\ Len(truths) = N /\ Len(Outcomes) = n /\ truths[n + 1] = t
    /\ ValidInputs(t) /\ ValidInputs(Believed(t, belief))
    /\ executed = IF K > 0 /\ SinceTransfer >= K THEN "transfer" ELSE Choice(t, belief)
    /\ Outcomes' = Append(Outcomes, Record(t, belief, executed))
    /\ SinceTransfer' = IF executed = "transfer" THEN 0 ELSE SinceTransfer + 1
    /\ IF executed = "transfer" /\ Bytes(t) > 0
       THEN \E seconds \in Observed(t) : belief' = Policy!LastSample(Bytes(t), seconds)
       ELSE belief' = belief
    /\ Held' = Append(Held, belief)
    /\ UNCHANGED <<truths, cfg>>

LEMMA TurnOfPolicy ==
    ASSUME NEW n, NEW t, NEW executed, Turn(n, t, executed) PROVE Policy!Request
<1>1. /\ (IF pc \in {"wait", "call"} THEN "loop" ELSE pc) = "loop"
      /\ (IF pc \in {"wait", "call"} THEN "loop" ELSE pc)' = "loop"
  BY DEF Turn
<1>2. Policy!Truth = t /\ Len(Outcomes) < Len(truths)
  BY DEF Turn, Policy!Truth
<1>3. Policy!ValidInputs(t) /\ Policy!ValidInputs(Policy!Believed(t, belief))
  BY PolicyScores DEF Turn
<1>4. executed = IF Policy!ProbeDue THEN "transfer" ELSE Policy!Choice(t, belief)
  BY PolicyRecords DEF Turn, Policy!ProbeDue, K
<1>5. Outcomes' = Append(Outcomes, Policy!Record(t, belief, executed))
  BY PolicyRecords, Zenon DEF Turn
<1>6. Policy!Learns(t, executed) <=> executed = "transfer" /\ Bytes(t) > 0
  BY PolicyScores DEF Policy!Learns
<1>7. IF Policy!Learns(t, executed)
      THEN \E seconds \in Policy!NoisyObserve(Policy!TransferDuration(t)) :
              belief' = Policy!LastSample(Policy!Bytes(t), seconds)
      ELSE UNCHANGED belief
  BY <1>6, PolicyScores DEF Turn, Observed
<1>8. /\ SinceTransfer' = IF executed = "transfer" THEN 0 ELSE SinceTransfer + 1
      /\ Held' = Append(Held, belief) /\ UNCHANGED <<truths, cfg>>
  BY DEF Turn
<1> QED BY <1>1, <1>2, <1>3, <1>4, <1>5, <1>7, <1>8, Zenon DEF Policy!Request

(* One request more is over. *)
LEMMA OutcomesNext ==
    ASSUME IInv, NEW n, n = Len(Finished), DOMAIN Finished' = 1..n + 1, truths' = truths,
           \A i \in 1..n : Finished'[i].action = Finished[i].action /\ held'[i] = held[i]
    PROVE  Outcomes' = Append(Outcomes, Record(truths[n + 1], held'[n + 1], Finished'[n + 1].action))
<1>1. /\ n \in Nat /\ Outcomes = [i \in 1..n |-> Outcomes[i]]
      /\ \A i \in 1..n : Outcomes[i] = Record(truths[i], held[i], Finished[i].action)
  BY OutcomesFacts
<1>2. Outcomes' = [i \in 1..n + 1 |-> Record(truths[i], held'[i], Finished'[i].action)]
  BY DEF Outcomes
<1>3. Outcomes' = [i \in 1..n + 1 |-> Outcomes'[i]]
  BY <1>2
<1>4. \A i \in 1..n : Outcomes'[i] = Outcomes[i]
  <2> SUFFICES ASSUME NEW i \in 1..n PROVE Outcomes'[i] = Outcomes[i]
    OBVIOUS
  <2>1. i \in 1..n + 1
    BY <1>1
  <2>2. Outcomes'[i] = Record(truths[i], held'[i], Finished'[i].action)
    BY <1>2, <2>1
  <2>3. Outcomes'[i] = Record(truths[i], held[i], Finished[i].action)
    BY <2>2, Zenon
  <2> QED BY <1>1, <2>3
<1>5. Outcomes' = Append(Outcomes, Outcomes'[n + 1])
  BY <1>1, <1>3, <1>4, FunctionAppended
<1>6. n + 1 \in 1..n + 1
  BY <1>1
<1> QED BY <1>2, <1>5, <1>6

(* A request decided: a turn, or what Run alone does until the answer.     *)
LEMMA DecideBench ==
    ASSUME IInv, IInv', BenchInv, DecideRequest
    PROVE  BenchInv' /\ (Policy!Request \/ UNCHANGED Policy!vars)
<1> DEFINE n == Last
           t == truths[n + 1]
           choice == Choice(t, belief)
           action == IF ProbeDue THEN "transfer" ELSE choice
           new == [believed |-> choice, action |-> action,
                   bytes |-> Bytes(t), seconds |-> 0, err |-> "none"]
<1>1. /\ pc = "wait" /\ n \in 0..N - 1 /\ n + 1 \in 1..N /\ results \in Seq(Result)
      /\ DOMAIN results = 1..n /\ Len(results) = n /\ Finished = results
      /\ \A i \in 1..n : results[i] \in Result
      /\ UNCHANGED <<cfg, belief, down, truths>> /\ held' = Append(held, belief)
  BY BenchFacts, NAssumption DEF DecideRequest, Request, MoreRequests, Last, Finished
<1>2. /\ truths \in Workloads /\ t \in Scenarios /\ Bytes(t) > 0 /\ Len(truths) = N
      /\ belief \in Beliefs /\ belief' \in Beliefs
  BY <1>1, WorkloadFacts DEF BenchInv, IInv, TypeOK
<1>3. /\ Estimate(Inputs(t)) = Estimate(Believed(t, belief))
      /\ ValidInputs(Believed(t, belief)) /\ ValidInputs(t)
  <2>1. Request(t)
    BY DEF DecideRequest, Current, Last
  <2>2. ValidInputs(Inputs(t))
    BY <2>1 DEF Request
  <2> QED BY <1>1, <1>2, <2>2, SameInputs, TruthIsValid
<1>4. /\ results' = Append(results, new)
      /\ sinceTransfer' = IF action = "transfer" THEN 0 ELSE sinceTransfer + 1
      /\ pc' = IF action = "transfer" THEN "call" ELSE "wait"
      /\ choice \in Actions /\ action \in Actions
  <2>1. ChooseLowestTTFT(Estimate(Inputs(t))).action = choice
    BY <1>3, Zenon DEF Choice
  <2>2. Decide(Estimate(Inputs(t))) = action
    BY <2>1, Zenon DEF Decide, BenchInv
  <2>3. PrefixBytes(t) = Bytes(t)
    BY DEF PrefixBytes, Bytes
  <2>4. choice \in Actions
    BY <2>1, ChoiceIsAction
  <2>5. action \in Actions
    BY <2>4 DEF Actions
  <2>6. Request(t)
    BY DEF DecideRequest, Current, Last
  <2> HIDE DEF choice, action, t
  <2> QED BY <1>2, <2>1, <2>2, <2>3, <2>4, <2>5, <2>6, Zenon DEF Request
<1> HIDE DEF t, choice, action, n
<1>5. new \in Result
  BY <1>2, <1>4, ScenariosAssumption DEF Result, Bytes
<1>6. /\ results' \in Seq(Result) /\ Len(results') = n + 1 /\ DOMAIN results' = 1..n + 1
      /\ results'[n + 1] = new /\ \A i \in 1..n : results'[i] = results[i]
      /\ Last' = n + 1
  BY <1>1, <1>4, <1>5, AppendProperties, LenProperties DEF Last
<1>7. /\ held \in Seq(Beliefs) /\ Len(held) = n
      /\ held' \in Seq(Beliefs) /\ Len(held') = n + 1
      /\ held'[n + 1] = belief /\ \A i \in 1..n : held'[i] = held[i]
      /\ SubSeq(held, 1, n) = held /\ SubSeq(held', 1, n) = held /\ SubSeq(held', 1, n + 1) = held'
  <2>1. held \in Seq(Beliefs) /\ Len(held) = n
    BY DEF BenchInv, n
  <2>2. /\ held' \in Seq(Beliefs) /\ Len(held') = n + 1
        /\ held'[n + 1] = belief /\ \A i \in 1..n : held'[i] = held[i]
    BY <1>1, <1>2, <2>1, AppendProperties
  <2> QED BY <1>1, <1>2, <2>1, <2>2, WholeSubSeq, SubSeqOfAppend
<1>8. /\ truths' \in Workloads /\ down' = FALSE
      /\ held' \in Seq(Beliefs) /\ Len(held') = Last'
      /\ \A i \in 1..Last' : results'[i].bytes = Bytes(truths'[i])
  <2>1. \A i \in 1..n : results'[i].bytes = Bytes(truths[i])
    BY <1>6 DEF BenchInv, n
  <2>2. results'[n + 1].bytes = Bytes(truths[n + 1])
    BY <1>6 DEF t
  <2>3. \A i \in 1..n + 1 : i \in 1..n \/ i = n + 1
    BY <1>1
  <2> QED BY <1>1, <1>2, <1>6, <1>7, <2>1, <2>2, <2>3 DEF BenchInv
<1>9. SinceTransfer = sinceTransfer /\ Held = held
  BY <1>1, <1>7 DEF SinceTransfer, Held
<1>10. action = IF K > 0 /\ SinceTransfer >= K THEN "transfer" ELSE choice
  BY <1>9 DEF action, ProbeDue
<1>11. CASE action = "transfer"
  <2>1. pc' = "call" /\ results' = Append(results, new)
    BY <1>4, <1>11
  <2>2. Finished' = results
    <3>1. Finished' = SubSeq(results', 1, n)
      <4>1. Len(results') - 1 = n
        BY <1>1, <1>6
      <4> QED BY <2>1, <4>1 DEF Finished, Current
    <3> QED BY <1>1, <1>5, <2>1, <3>1, SubSeqOfAppend
  <2>3. SinceTransfer' = SinceTransfer
    <3>1. SinceTransfer' = Cardinality({j \in DOMAIN results :
              \A i \in j..Len(results) : results[i].action # "transfer"})
      BY <2>1, <2>2 DEF SinceTransfer
    <3> QED BY <1>1, <1>9, <3>1, CountsAgree DEF n
  <2>4. Outcomes' = Outcomes
    <3>1. Outcomes' = [i \in 1..n |-> Record(truths[i], held'[i], results[i].action)]
      BY <1>1, <2>2 DEF Outcomes
    <3>2. Outcomes = [i \in 1..n |-> Record(truths[i], held[i], results[i].action)]
      BY <1>1 DEF Outcomes
    <3> QED BY <1>7, <3>1, <3>2, Zenon
  <2>5. Held' = Held
    BY <1>1, <1>7, <1>9, <2>2 DEF Held
  <2>6. UNCHANGED Policy!vars
    BY <1>1, <2>1, <2>3, <2>4, <2>5 DEF Policy!vars
  <2>7. (K > 0 /\ SinceTransfer >= K) \/ choice = "transfer"
    BY <1>10, <1>11
  <2>8. K' = K /\ truths'[Last'] = t /\ held'[Last'] = belief /\ belief' = belief
    BY <1>1, <1>6, <1>7 DEF K, t
  <2>9. (K' > 0 /\ SinceTransfer' >= K') \/ Choice(truths'[Last'], belief') = "transfer"
    BY <2>3, <2>7, <2>8 DEF choice
  <2>10. BenchInv'
    BY <1>3, <1>8, <2>8, <2>9 DEF BenchInv
  <2> QED BY <2>6, <2>10
<1>12. CASE action # "transfer"
  <2>1. pc' = "wait" /\ Finished' = results' /\ SinceTransfer' = SinceTransfer + 1
    BY <1>4, <1>9, <1>12 DEF Finished, SinceTransfer
  <2>2. Outcomes' = Append(Outcomes, Record(t, belief, action))
    <3>1. /\ n = Len(Finished) /\ DOMAIN Finished' = 1..n + 1
          /\ \A i \in 1..n : Finished'[i].action = Finished[i].action /\ held'[i] = held[i]
      BY <1>1, <1>6, <1>7, <2>1
    <3>2. Outcomes' = Append(Outcomes, Record(truths[n + 1], held'[n + 1], Finished'[n + 1].action))
      BY <1>1, <3>1, OutcomesNext
    <3>3. Finished'[n + 1].action = action /\ held'[n + 1] = belief
      BY <1>6, <1>7, <2>1
    <3> QED BY <3>2, <3>3 DEF t
  <2>3. Held' = Append(Held, belief)
    BY <1>1, <1>6, <1>7, <1>9, <2>1 DEF Held
  <2>4. Len(Outcomes) = n
    BY <1>1, OutcomesFacts
  <2>5. Turn(n, t, action)
    BY <1>1, <1>2, <1>3, <1>10, <1>12, <2>1, <2>2, <2>3, <2>4 DEF Turn, t, choice
  <2>6. BenchInv'
    BY <1>8, <2>1 DEF BenchInv
  <2> QED BY <2>5, <2>6, TurnOfPolicy
<1> QED BY <1>11, <1>12

(* An answer: the turn that its request began.                             *)
LEMMA AnswerBench ==
    ASSUME IInv, IInv', BenchInv, AnswerTruly
    PROVE  BenchInv' /\ (Policy!Request \/ UNCHANGED Policy!vars)
<1> DEFINE t == truths[Last]
<1>1. PICK seconds \in Observed(t) :
         CallSucceeds(seconds) /\ belief' = Policy!LastSample(Bytes(t), seconds)
  BY DEF AnswerTruly, Current, Last
<1>2. /\ Last \in 1..N /\ Last \in Nat /\ results \in Seq(Result) /\ DOMAIN results = 1..Last
      /\ results[Last] \in Result /\ Tried(results[Last]) /\ results[Last].action = "transfer"
      /\ pc = "call" /\ truths' = truths /\ held' = held /\ Current = Last
  <2>1. pc = "call" /\ truths' = truths /\ held' = held
    BY DEF AnswerTruly
  <2>2. Last > 0 /\ sinceTransfer = 0
    BY <2>1 DEF IInv, CallInv
  <2>3. Last \in 1..N /\ Last \in Nat /\ results[Last] \in Result /\ Tried(results[Last])
    BY <2>1, <2>2, BenchFacts, NAssumption DEF IInv, CountInv
  <2> QED BY <2>1, <2>3, BenchFacts DEF Current, Last
<1>3. PICK n \in 0..N - 1 : n \in Nat /\ Last = n + 1 /\ n + 1 \in 1..N /\ n < N
  <2>1. /\ Last - 1 \in 0..N - 1 /\ Last - 1 \in Nat /\ Last = (Last - 1) + 1
        /\ (Last - 1) + 1 \in 1..N /\ Last - 1 < N
    BY <1>2, NAssumption
  <2> QED BY <2>1, Zenon
<1>4. /\ truths \in Workloads /\ t \in Scenarios /\ Bytes(t) > 0 /\ Len(truths) = N
      /\ ValidInputs(t) /\ ValidInputs(Believed(t, belief))
      /\ held[Last] = belief
      /\ (K > 0 /\ SinceTransfer >= K) \/ Choice(t, belief) = "transfer"
  BY <1>2, WorkloadFacts DEF BenchInv
<1>5. seconds \in Times
  BY <1>2, <1>4, BenchAssumption, WorkloadFacts DEF BenchInv
<1> DEFINE r == [results[Last] EXCEPT !.seconds = seconds]
<1>6. /\ r \in Result /\ r.bytes = results[Last].bytes
      /\ r.believed = results[Last].believed /\ r.action = results[Last].action
      /\ results' = [results EXCEPT ![Current] = r]
      /\ pc' = "wait" /\ down' = FALSE /\ cfg' = cfg /\ sinceTransfer' = sinceTransfer
  <2>1. seconds \in Nat
    BY <1>5, TimesAssumption
  <2>2. /\ results' = [results EXCEPT ![Current].seconds = seconds]
        /\ pc' = "wait" /\ down' = FALSE /\ cfg' = cfg /\ sinceTransfer' = sinceTransfer
    BY <1>1 DEF CallSucceeds
  <2>3. results' = [results EXCEPT ![Current] = r]
    BY <1>2, <2>2
  <2> QED BY <1>2, <2>1, <2>2, <2>3 DEF Result
<1> HIDE DEF t, r
<1>7. /\ Last' = Last /\ results' \in Seq(Result) /\ results'[Last] = r
      /\ DOMAIN results' = 1..Last /\ \A j \in 1..Last - 1 : results'[j] = results[j]
      /\ sinceTransfer = 0
  BY <1>2, <1>6, AnswerFacts
<1>8. /\ Len(Finished) = n /\ Finished' = results' /\ \A j \in 1..n : Finished[j] = results'[j]
  <2>1. Len(Finished) = n
    BY <1>2, <1>3, FinishedFacts
  <2>2. \A j \in 1..n : Finished[j] = results'[j]
    BY <1>3, <1>7, <2>1, FinishedFacts
  <2> QED BY <1>6, <2>1, <2>2 DEF Finished
<1>9. /\ held \in Seq(Beliefs) /\ Len(held) = n + 1 /\ held[n + 1] = belief
      /\ SubSeq(held, 1, n + 1) = held
      /\ held = Append(SubSeq(held, 1, n), belief)
  <2>1. held \in Seq(Beliefs) /\ Len(held) = n + 1 /\ held[n + 1] = belief
    BY <1>3, <1>4 DEF BenchInv
  <2> QED BY <1>3, <2>1, WholeSubSeq, LastAppended
<1>10. Held' = Append(Held, belief)
  <2>1. Len(results') = n + 1
    BY <1>3, <1>7 DEF Last
  <2>2. Held' = held
    BY <1>2, <1>8, <1>9, <2>1 DEF Held
  <2>3. Held = SubSeq(held, 1, n)
    BY <1>8 DEF Held
  <2> QED BY <1>9, <2>2, <2>3
<1>11. Outcomes' = Append(Outcomes, Record(t, belief, "transfer"))
  <2>1. /\ n = Len(Finished) /\ DOMAIN Finished' = 1..n + 1
        /\ \A i \in 1..n : Finished'[i].action = Finished[i].action /\ held'[i] = held[i]
    BY <1>2, <1>3, <1>7, <1>8
  <2>2. Outcomes' = Append(Outcomes, Record(truths[n + 1], held'[n + 1], Finished'[n + 1].action))
    BY <1>2, <2>1, OutcomesNext
  <2>3. Finished'[n + 1].action = "transfer" /\ held'[n + 1] = belief
    BY <1>2, <1>3, <1>6, <1>7, <1>8, <1>9
  <2> QED BY <1>3, <2>2, <2>3 DEF t
<1>12. Len(Outcomes) = n
  BY <1>8, OutcomesFacts
<1>13. SinceTransfer' = 0
  BY <1>6, <1>7 DEF SinceTransfer
<1>14. Turn(n, t, "transfer")
  <2>1. "transfer" = IF K > 0 /\ SinceTransfer >= K THEN "transfer" ELSE Choice(t, belief)
    BY <1>4
  <2>2. IF "transfer" = "transfer" /\ Bytes(t) > 0
        THEN \E s \in Observed(t) : belief' = Policy!LastSample(Bytes(t), s)
        ELSE belief' = belief
    BY <1>1, <1>4 DEF t
  <2>3. /\ n < N /\ truths[n + 1] = t /\ pc \in {"wait", "call"} /\ pc' \in {"wait", "call"}
        /\ UNCHANGED <<truths, cfg>>
    BY <1>2, <1>3, <1>6 DEF t
  <2> QED BY <1>4, <1>10, <1>11, <1>12, <1>13, <2>1, <2>2, <2>3, Zenon DEF Turn
<1>15. BenchInv'
  <2>1. \A i \in 1..Last' : results'[i].bytes = Bytes(truths'[i])
    <3> SUFFICES ASSUME NEW i \in 1..Last PROVE results'[i].bytes = Bytes(truths[i])
      BY <1>2, <1>7
    <3>1. results'[i].bytes = results[i].bytes
      BY <1>2, <1>3, <1>6, <1>7
    <3> QED BY <3>1 DEF BenchInv
  <2>2. Len(held') = Last'
    BY <1>2, <1>3, <1>7, <1>9
  <2> QED BY <1>2, <1>4, <1>6, <1>9, <2>1, <2>2 DEF BenchInv
<1> QED BY <1>14, <1>15, TurnOfPolicy

(* The steps that end a run or begin it, and a step of none of these.      *)
LEMMA SameOutcomes ==
    ASSUME Finished' = Finished, truths' = truths, held' = held
    PROVE  Outcomes' = Outcomes /\ Held' = Held
BY DEF Outcomes, Held

LEMMA RejectBench ==
    ASSUME IInv, BenchInv, RejectScenario
    PROVE  BenchInv' /\ Policy!Reject
<1> DEFINE t == truths[Last + 1]
<1>1. /\ pc = "wait" /\ pc' = "returned" /\ results' = <<>> /\ held' = <<>>
      /\ Last < N /\ ~ValidInputs(Inputs(t)) /\ Finished = results /\ Last \in Nat /\ Last + 1 \in 1..N
      /\ UNCHANGED <<truths, cfg, belief, sinceTransfer, down>>
  BY BenchFacts, NAssumption
     DEF RejectScenario, RejectInputs, Return, MoreRequests, Last, Finished, Current
<1>2. Last' = 0 /\ Finished' = <<>> /\ Len(Finished') = 0
  BY <1>1 DEF Last, Finished
<1>3. BenchInv'
  BY <1>1, <1>2 DEF BenchInv
<1>4. Outcomes' = <<>> /\ Held' = <<>>
  <2>1. Held' = <<>>
    <3>1. SubSeq(<<>>, 1, 0) = <<>>
      OBVIOUS
    <3> QED BY <1>1, <1>2, <3>1 DEF Held
  <2>2. DOMAIN Finished' = {}
    BY <1>2
  <2>3. Outcomes' = [i \in {} |-> Record(truths'[i], held'[i], Finished'[i].action)]
    BY <2>2 DEF Outcomes
  <2>4. Outcomes' = [i \in 1..0 |-> Outcomes'[i]]
    BY <2>3
  <2>5. Outcomes' \in [1..0 -> {}]
    BY <2>4
  <2>6. Outcomes' \in Seq({}) /\ Len(Outcomes') = 0
    BY <2>5
  <2> QED BY <2>1, <2>6, EmptySeq
<1>5. ~ValidInputs(Believed(t, belief)) /\ t = truths[Len(Outcomes) + 1] /\ Len(Outcomes) < Len(truths)
  <2>1. truths \in Workloads
    BY DEF BenchInv
  <2>2. t \in Scenarios /\ Len(truths) = N
    BY <1>1, <2>1, WorkloadFacts
  <2>3. Len(Outcomes) = Last
    BY <1>1, OutcomesFacts DEF Last
  <2> QED BY <1>1, <2>2, <2>3, SameInputs
<1>6. SinceTransfer' = SinceTransfer
  BY <1>1 DEF SinceTransfer
<1>7. Policy!Truth = t
  BY <1>5 DEF Policy!Truth
<1>8. ~(Policy!ValidInputs(Policy!Truth) /\ Policy!ValidInputs(Policy!Believed(Policy!Truth, belief)))
  BY <1>5, <1>7, PolicyScores
<1>9. /\ (IF pc \in {"wait", "call"} THEN "loop" ELSE pc) = "loop"
      /\ (IF pc \in {"wait", "call"} THEN "loop" ELSE pc)' = "returned"
  BY <1>1
<1> QED BY <1>1, <1>3, <1>4, <1>5, <1>6, <1>8, <1>9, Zenon DEF Policy!Reject

LEMMA StartBench ==
    ASSUME IInv, BenchInv, Start, UNCHANGED <<truths, held>>
    PROVE  BenchInv' /\ Policy!Start
<1>1. /\ pc = "start" /\ results = <<>> /\ results' = <<>> /\ Finished = <<>> /\ Finished' = <<>>
      /\ pc' = IF InvalidConfig THEN "returned" ELSE "wait"
      /\ UNCHANGED <<cfg, belief, sinceTransfer, down>>
  BY DEF Start, IInv, StartInv, Return, Finished
<1>2. InvalidConfig <=> cfg.probeEvery < 0
  BY BenchAssumption, ConfigsAssumption DEF InvalidConfig, IInv, TypeOK
<1>3. BenchInv'
  BY <1>1 DEF BenchInv, Last
<1>4. Outcomes' = Outcomes /\ Held' = Held /\ SinceTransfer' = SinceTransfer
  <2>1. pc # "call" /\ pc' # "call"
    BY <1>1
  <2> QED BY <1>1, <2>1, SameOutcomes DEF SinceTransfer
<1>5. /\ (IF pc \in {"wait", "call"} THEN "loop" ELSE pc) = "start"
      /\ (IF pc \in {"wait", "call"} THEN "loop" ELSE pc)' =
            IF cfg.probeEvery < 0 THEN "returned" ELSE "loop"
  BY <1>1, <1>2
<1> QED BY <1>1, <1>3, <1>4, <1>5, Zenon DEF Policy!Start

LEMMA FinishBench ==
    ASSUME IInv, BenchInv, Finish, UNCHANGED <<truths, held>>
    PROVE  BenchInv' /\ Policy!Return
<1>1. /\ pc = "wait" /\ pc' = "returned" /\ results' = results
      /\ Finished = results /\ Finished' = results /\ ~(Last < N)
      /\ UNCHANGED <<cfg, belief, sinceTransfer, down>>
  BY DEF Finish, Return, Finished, MoreRequests, Last
<1>2. BenchInv'
  BY <1>1 DEF BenchInv, Last
<1>3. Outcomes' = Outcomes /\ Held' = Held /\ SinceTransfer' = SinceTransfer
  BY <1>1, SameOutcomes DEF SinceTransfer
<1>4. Len(Outcomes) = Len(truths)
  <2>1. Last = N
    BY <1>1, BenchFacts, NAssumption
  <2>2. Len(truths) = N
    BY WorkloadFacts DEF BenchInv
  <2>3. Len(Outcomes) = Last
    BY <1>1, OutcomesFacts DEF Last
  <2> QED BY <2>1, <2>2, <2>3
<1>5. /\ (IF pc \in {"wait", "call"} THEN "loop" ELSE pc) = "loop"
      /\ (IF pc \in {"wait", "call"} THEN "loop" ELSE pc)' = "returned"
  BY <1>1
<1> QED BY <1>1, <1>2, <1>3, <1>4, <1>5, Zenon DEF Policy!Return

LEMMA StepsOfBench == IInv /\ BenchInv /\ [BNext]_bvars => [Next]_vars
<1> SUFFICES ASSUME IInv, BenchInv, [BNext]_bvars PROVE [Next]_vars
  OBVIOUS
<1>0. truths \in Workloads /\ Last \in 0..N
  BY BenchFacts DEF BenchInv
<1>1. ASSUME Last < N PROVE truths[Last + 1] \in Scenarios
  BY <1>0, <1>1, NAssumption, WorkloadFacts
<1>2. CASE DecideRequest
  <2>1. Request(truths[Last + 1]) /\ Last < N
    BY <1>2 DEF DecideRequest, Current, Last, Request, MoreRequests
  <2> QED BY <1>1, <2>1 DEF Next, Loop
<1>3. CASE RejectScenario
  <2>1. RejectInputs(truths[Last + 1]) /\ Last < N
    BY <1>3 DEF RejectScenario, Current, Last, RejectInputs, MoreRequests
  <2> QED BY <1>1, <2>1 DEF Next, Loop
<1>4. CASE AnswerTruly
  <2>1. pc = "call"
    BY <1>4 DEF AnswerTruly
  <2>2. truths[Current] \in Scenarios /\ Last \in 1..N /\ Current = Last
    BY <1>0, <2>1, NAssumption, WorkloadFacts DEF IInv, CallInv, Current, Last
  <2>3. ValidInputs(truths[Current])
    BY <2>1, <2>2 DEF BenchInv
  <2>4. \A seconds \in Observed(truths[Current]) : seconds \in Times
    BY <1>0, <2>2, BenchAssumption
  <2> QED BY <1>4, <2>4 DEF AnswerTruly, Next, Answer
<1>5. CASE Start \/ Finish
  BY <1>5 DEF Next, Loop
<1>6. CASE UNCHANGED bvars
  BY <1>6 DEF bvars
<1> QED BY <1>2, <1>3, <1>4, <1>5, <1>6, Zenon DEF BNext

LEMMA StepBench ==
    IInv /\ BenchInv /\ [BNext]_bvars => IInv' /\ BenchInv' /\ [Policy!Next]_(Policy!vars)
<1> SUFFICES ASSUME IInv, BenchInv, [BNext]_bvars
             PROVE  IInv' /\ BenchInv' /\ [Policy!Next]_(Policy!vars)
  OBVIOUS
<1>0. IInv'
  BY StepsOfBench, StepIInv
<1>1. CASE DecideRequest
  BY <1>0, <1>1, DecideBench DEF Policy!Next
<1>2. CASE AnswerTruly
  BY <1>0, <1>2, AnswerBench DEF Policy!Next
<1>3. CASE RejectScenario
  BY <1>0, <1>3, RejectBench DEF Policy!Next
<1>4. CASE Start /\ UNCHANGED <<truths, held>>
  BY <1>0, <1>4, StartBench DEF Policy!Next
<1>5. CASE Finish /\ UNCHANGED <<truths, held>>
  BY <1>0, <1>5, FinishBench DEF Policy!Next
<1>6. CASE UNCHANGED bvars
  <2>1. UNCHANGED <<vars, truths, held>>
    BY <1>6 DEF bvars
  <2>2. UNCHANGED <<cfg, pc, belief, sinceTransfer, down, results, truths, held>>
    BY <2>1 DEF vars
  <2>3. BenchInv'
    <3>1. SinceTransfer' = SinceTransfer /\ K' = K /\ Last' = Last
      BY <2>2 DEF SinceTransfer, Finished, Current, K, Last
    <3> QED BY <2>2, <3>1 DEF BenchInv
  <2>4. UNCHANGED Policy!vars
    <3>1. Finished' = Finished /\ SinceTransfer' = SinceTransfer
      BY <2>2 DEF SinceTransfer, Finished, Current
    <3>2. Outcomes' = Outcomes /\ Held' = Held
      BY <2>2, <3>1, SameOutcomes
    <3> QED BY <2>2, <3>1, <3>2 DEF Policy!vars
  <2> QED BY <1>0, <2>3, <2>4
<1> QED BY <1>1, <1>2, <1>3, <1>4, <1>5, <1>6, Zenon DEF BNext

LEMMA InitBench == BInit => IInv /\ BenchInv /\ Policy!Init
<1> SUFFICES ASSUME BInit PROVE IInv /\ BenchInv /\ Policy!Init
  OBVIOUS
<1>1. /\ Init /\ truths \in Workloads /\ belief = Initial /\ held = <<>>
      /\ pc = "start" /\ results = <<>> /\ sinceTransfer = 0 /\ down = FALSE /\ cfg \in Configs
  BY DEF BInit, Init
<1>2. BenchInv
  BY <1>1 DEF BenchInv, Last
<1>3. SinceTransfer = 0 /\ Finished = <<>> /\ Len(Finished) = 0 /\ Held = <<>>
  <2>1. SinceTransfer = 0 /\ Finished = <<>> /\ Len(Finished) = 0
    BY <1>1 DEF SinceTransfer, Finished
  <2>2. SubSeq(<<>>, 1, 0) = <<>>
    OBVIOUS
  <2> QED BY <1>1, <2>1, <2>2 DEF Held
<1>4. Outcomes = <<>>
  <2>1. IInv
    BY <1>1, InitIInv
  <2>2. Outcomes = [i \in 1..0 |-> Outcomes[i]]
    BY <1>3, <2>1, OutcomesFacts
  <2>3. Outcomes \in [1..0 -> {}]
    BY <2>2
  <2>4. Outcomes \in Seq({}) /\ Len(Outcomes) = 0
    BY <2>3
  <2> QED BY <2>4, EmptySeq
<1>5. cfg.probeEvery \in {c.probeEvery : c \in Configs}
  BY <1>1
<1> QED BY <1>1, <1>2, <1>3, <1>4, <1>5, InitIInv DEF Policy!Init

(* kvbench measures the policies that kvcontrol runs: on any workload that *)
(* has something to send in every request, the controller asks for the     *)
(* same transfers in the same places as RunAdaptive and holds the same     *)
(* beliefs, whatever probeEvery is and whatever a measurement is off by.   *)
THEOREM ControllerRunsThePolicy == BSpec => RunsThePolicy
<1>1. BSpec => [](IInv /\ BenchInv)
  BY InitBench, StepBench, PTL DEF BSpec
<1> QED BY <1>1, InitBench, StepBench, PTL DEF BSpec, RunsThePolicy, Policy!Spec
=============================================================================
