------------------------------ MODULE SodCache ------------------------------
(***************************************************************************)
(* The switch of the segregation of duties: the settings document          *)
(* (settings/organization-settings.service.ts, update and the loader it    *)
(* registers) and the cached copy of one server process that every check   *)
(* reads (common/utils/sod.util.ts).  Other server processes change the    *)
(* same document and cannot clear this process's copy: only its age        *)
(* (TTL_MS) does.                                                          *)
(*                                                                         *)
(* Abstracted: time, to whether the copy is younger than TTL_MS; the other *)
(* fields of the settings.                                                 *)
(***************************************************************************)
EXTENDS Naturals

CONSTANTS
  Admin,       \* updates of the settings that may be under way in the process
  MaxChanges,  \* BOUND: updates ever begun, here or elsewhere
  EnvFallback, \* what SOD_ENFORCE says: envFallback()
  None

ASSUME SodAssumption ==
  MaxChanges \in Nat /\ EnvFallback \in BOOLEAN /\ None \notin BOOLEAN

VARIABLES
  setting,  \* sodEnforce in the database, None when absent
  cached,   \* cachedValue, None when undefined
  fresh,    \* Date.now() - cachedAt < TTL_MS
  origin,   \* what the copy was made from: the settings, or a failed load
  load,     \* the load under way (inflight)
  update,   \* [Admin -> record]: an update of the settings under way here
  changes   \* updates begun

vars == <<setting, cached, fresh, origin, load, update, changes>>

Setting == BOOLEAN \cup {None}
Idle == [at |-> "idle"]

TypeOK ==
  /\ setting \in Setting
  /\ cached \in Setting
  /\ fresh \in BOOLEAN
  /\ fresh => cached # None
  /\ origin \in {"settings", "failure"}
  /\ load \in [at : {"idle", "asked"}] \cup [at : {"answered"}, got : Setting]
              \cup [at : {"failed"}]
  /\ update \in [Admin -> [at : {"idle", "saved"}]
                          \cup [at : {"read"}, was : Setting, to : Setting]]
  /\ changes \in 0 .. MaxChanges

Init ==
  /\ setting \in Setting
  /\ cached = None
  /\ fresh = FALSE
  /\ origin = "settings"
  /\ load = Idle
  /\ update = [a \in Admin |-> Idle]
  /\ changes = 0
----------------------------------------------------------------------------
(* sodEnforced: a copy young enough answers; a load under way is shared;   *)
(* otherwise a check begins one                                            *)

Hit == cached # None /\ fresh

BeginLoad ==
  /\ ~Hit
  /\ load = Idle
  /\ load' = [at |-> "asked"]
  /\ UNCHANGED <<setting, cached, fresh, origin, update, changes>>

\* getSettingsDoc answers what the database holds now
LoadAnswered ==
  /\ load.at = "asked"
  /\ load' = [at |-> "answered", got |-> setting]
  /\ UNCHANGED <<setting, cached, fresh, origin, update, changes>>

LoadFails ==
  /\ load.at = "asked"
  /\ load' = [at |-> "failed"]
  /\ UNCHANGED <<setting, cached, fresh, origin, update, changes>>

\* an absent setting leaves it to the environment
Effective(s) == IF s = None THEN EnvFallback ELSE s

\* The copy is replaced whatever happened since the database answered;
\* a load that failed enforces the rule.
EndLoad ==
  /\ load.at \in {"answered", "failed"}
  /\ cached' = IF load.at = "failed" THEN TRUE ELSE Effective(load.got)
  /\ origin' = IF load.at = "failed" THEN "failure" ELSE "settings"
  /\ fresh' = TRUE
  /\ load' = Idle
  /\ UNCHANGED <<setting, update, changes>>

\* (Mutant: a copy made from the settings serves until it is cleared.)
ExpiresOnFailure == fresh /\ origin = "failure"

\* TTL_MS has passed since cachedAt
Expires == fresh

Ages ==
  /\ Expires
  /\ fresh' = FALSE
  /\ UNCHANGED <<setting, cached, origin, load, update, changes>>
----------------------------------------------------------------------------
(* Changing the setting                                                    *)

\* What the save of the document writes: mongoose sends the fields that were
\* modified.  A value equal to the one read is no modification, and unset is
\* marked unmodified (doc.unmarkModified).
Written(now, was, to) == IF to = None \/ to = was THEN now ELSE to

UpdateRead(a, to) ==
  /\ update[a] = Idle
  /\ changes < MaxChanges
  /\ changes' = changes + 1
  /\ update' = [update EXCEPT ![a] = [at |-> "read", was |-> setting, to |-> to]]
  /\ UNCHANGED <<setting, cached, fresh, origin, load>>

UpdateSave(a) ==
  /\ update[a].at = "read"
  /\ setting' = Written(setting, update[a].was, update[a].to)
  /\ update' = [update EXCEPT ![a] = [at |-> "saved"]]
  /\ UNCHANGED <<cached, fresh, origin, load, changes>>

\* invalidateSodCache
UpdateInvalidate(a) ==
  /\ update[a].at = "saved"
  /\ cached' = None
  /\ fresh' = FALSE
  /\ update' = [update EXCEPT ![a] = Idle]
  /\ UNCHANGED <<setting, origin, load, changes>>

\* the save fails, or the request ends before it
UpdateFails(a) ==
  /\ update[a].at = "read"
  /\ update' = [update EXCEPT ![a] = Idle]
  /\ UNCHANGED <<setting, cached, fresh, origin, load, changes>>

\* an update served by another process
ChangeElsewhere(to) ==
  /\ changes < MaxChanges
  /\ changes' = changes + 1
  /\ setting' = Written(setting, setting, to)
  /\ UNCHANGED <<cached, fresh, origin, load, update>>

\* the process starts again, with no copy
Restart ==
  /\ cached' = None
  /\ fresh' = FALSE
  /\ load' = Idle
  /\ update' = [a \in Admin |-> Idle]
  /\ UNCHANGED <<setting, origin, changes>>
----------------------------------------------------------------------------
Next ==
  \/ BeginLoad \/ LoadAnswered \/ LoadFails \/ EndLoad \/ Ages
  \/ \E a \in Admin :
       \/ \E to \in Setting : UpdateRead(a, to)
       \/ UpdateSave(a) \/ UpdateInvalidate(a) \/ UpdateFails(a)
  \/ \E to \in Setting : ChangeElsewhere(to)
  \/ Restart

\* A load ends, time passes, and a request that runs is run to its end.
\* Nothing obliges anyone to ask, or to change the setting.
Fairness ==
  /\ WF_vars(LoadAnswered \/ LoadFails) /\ WF_vars(EndLoad)
  /\ WF_vars(Ages)
  /\ \A a \in Admin : WF_vars(UpdateSave(a)) /\ WF_vars(UpdateInvalidate(a))

Spec == Init /\ [][Next]_vars /\ Fairness
----------------------------------------------------------------------------
(* Once the setting is no longer changed, every check the cached copy      *)
(* answers in the end goes by the setting, whatever load was under way     *)
(* when it changed and whichever process changed it; a copy made from a    *)
(* failed load enforces the rule (sodEnforced, TTL_MS).                    *)
SettingReachesChecks ==
  <>[](Hit => IF origin = "failure" THEN cached = TRUE
              ELSE cached = Effective(setting))
=============================================================================
