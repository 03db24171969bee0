---------------------------- MODULE MCUserSettings ----------------------------
(* Two threads, a setting of either kind.  A thread that asks again while    *)
(* the other is still asked is enough for a setting to be stored twice.      *)
EXTENDS UserSettings

CONSTANTS t1, t2, save, forever

MCThreads == {t1, t2}
MCKeys == {save, forever}
MCForever == {forever}
==============================================================================
