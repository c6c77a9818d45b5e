---------------------------- MODULE MCKVControl ----------------------------
(* KVControl with MCController's few requests, all settings and beliefs;   *)
(* and with what the command itself gives Run.                             *)
EXTENDS MCController, KVControl

(* One scenario for every request, and the flags -probe and -timeout; the  *)
(* command itself wants -interval positive.                                *)
OneScenario == {Plain}
FlagConfigs == {[c EXCEPT !.interval = 1] : c \in MCConfigs}
=============================================================================
