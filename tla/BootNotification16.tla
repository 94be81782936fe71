--------------------------- MODULE BootNotification16 --------------------------
(***************************************************************************)
(* The boot of one OCPP 1.6 station: _handleOcpp16BootNotification of the  *)
(* Configuration module with BootNotificationService, the Boot row and the *)
(* cache entries of the station.                                           *)
(*                                                                         *)
(* Unlike OCPP 2.0.1 (BootNotification) the configuration is one           *)
(* ChangeConfiguration after the other, each answer waited for, then       *)
(* GetConfiguration; what could not be sent is left to do in the row, and  *)
(* the station is asked to boot again.  Boots are answered side by side.   *)
(***************************************************************************)
EXTENDS Naturals

CONSTANTS
  UnknownChargerStatus,  \* ocpp1_6.unknownChargerStatus
  Configurations,        \* the number of ChangeConfiguration rows of the station
  MaxBoots,              \* bound on the boots
  MaxWrites,             \* bound on the writes of the row by an operator
  None

Boots == 1..MaxBoots
BootStatuses == {"Accepted", "Pending", "Rejected"}
Calls == {"ChangeConfiguration", "GetConfiguration", "TriggerMessage"}
BootActions == Calls \union {"other"}   \* but for BootNotification

VARIABLES
  bootRow,    \* the Boot row, or None; the flags are "default" while not set
  bootCache,  \* cache: boot_status
  barred,     \* cache: the blacklisted actions
  boot,       \* the handlers
  bootTold,   \* the status the station was answered last
  writes,     \* how often an operator wrote the row
  mixed,      \* history: a boot met the answering of another one, or its answering failed
  overruled,  \* history: an operator wrote the row, or such a write was lost
  unsent,     \* history: boots with a configuration that was not sent
  configured  \* history: all configuration calls of a boot have been sent

boot16Vars ==
  <<bootRow, bootCache, barred, boot, bootTold, writes, mixed, overruled, unsent, configured>>

Flag == {"default", "yes", "no"}
BootRow == [status : BootStatuses, changeOnPending : Flag, getOnPending : Flag]
Boot == [status : BootStatuses, cached : BootStatuses \union {None},
         pc : {"look", "permit", "respond", "cache", "record", "configure", "change", "wait",
               "flags", "trigger", "over"},
         left : 0..Configurations, changeOnPending : BOOLEAN, getOnPending : BOOLEAN]

TypeOK ==
  /\ bootRow \in BootRow \union {None}
  /\ bootCache \in {"Pending", "Rejected", None}
  /\ barred \subseteq BootActions
  /\ boot \in [Boots -> Boot \union {None}]
  /\ bootTold \in BootStatuses \union {None}
  /\ writes \in 0..MaxWrites
  /\ mixed \in BOOLEAN /\ overruled \in BOOLEAN
  /\ unsent \subseteq Boots /\ configured \in BOOLEAN

NewRow(status) == [status |-> status, changeOnPending |-> "default", getOnPending |-> "default"]

Init ==
  /\ bootRow = None
  /\ bootCache = None /\ barred = {}
  /\ boot = [b \in Boots |-> None]
  /\ bootTold = None /\ writes = 0
  /\ mixed = FALSE /\ overruled = FALSE
  /\ unsent = {} /\ configured = FALSE

At(b, pc) == boot[b] # None /\ boot[b].pc = pc
GoTo(b, pc) == boot' = [boot EXCEPT ![b].pc = pc]

BootOver == [status |-> "Rejected", cached |-> None, pc |-> "over", left |-> 0,
             changeOnPending |-> FALSE, getOnPending |-> FALSE]
End(b) == boot' = [boot EXCEPT ![b] = BootOver]
Answering == {b \in Boots : boot[b] # None
                /\ boot[b].pc \in {"look", "permit", "respond", "cache", "record"}}

-----------------------------------------------------------------------------
(* The answer. *)

(* A pending station with nothing left to send is accepted. *)
DetermineBootStatus ==
  IF bootRow = None THEN UnknownChargerStatus
  ELSE IF bootRow.status = "Pending" /\ bootRow.changeOnPending = "no"
          /\ bootRow.getOnPending = "no"
  THEN "Accepted" ELSE bootRow.status

BootNotification(b) ==
  /\ boot[b] = None /\ \A a \in Boots : a < b => boot[a] # None
  /\ boot' = [boot EXCEPT ![b] =
       [status |-> DetermineBootStatus, cached |-> None, pc |-> "look", left |-> 0,
        changeOnPending |-> FALSE, getOnPending |-> TRUE]]
  /\ mixed' = (mixed \/ Answering # {})
  /\ UNCHANGED <<bootRow, bootCache, barred, bootTold, writes, overruled, unsent, configured>>

ReadCachedStatus(b) ==
  /\ At(b, "look")
  /\ boot' = [boot EXCEPT ![b].cached = bootCache, ![b].pc = "permit"]
  /\ UNCHANGED <<bootRow, bootCache, barred, bootTold, writes, mixed, overruled, unsent, configured>>

\* Mutant: the cached status of an accepted station stays.
CachePermissionsOnly(b) ==
  /\ At(b, "permit")
  /\ barred' = IF boot[b].status = "Accepted" THEN IF boot[b].cached # None THEN {} ELSE barred
               ELSE IF boot[b].cached = None THEN BootActions ELSE barred
  /\ GoTo(b, "respond")
  /\ UNCHANGED <<bootRow, bootCache, bootTold, writes, mixed, overruled, unsent, configured>>

(* cacheOcpp16ChargerActionsPermissions. *)
CachePermissions(b) ==
  /\ At(b, "permit")
  /\ IF boot[b].status = "Accepted"
     THEN IF boot[b].cached # None THEN barred' = {} /\ bootCache' = None
          ELSE UNCHANGED <<barred, bootCache>>
     ELSE /\ barred' = IF boot[b].cached = None THEN BootActions ELSE barred
          /\ bootCache' = bootCache
  /\ GoTo(b, "respond")
  /\ UNCHANGED <<bootRow, bootTold, writes, mixed, overruled, unsent, configured>>

(* The response is sent and the station stored; the handler throws when    *)
(* the response was not sent or the station cannot be stored.              *)
SendResponse(b) ==
  /\ At(b, "respond")
  /\ bootTold' = boot[b].status
  /\ GoTo(b, "cache")
  /\ UNCHANGED <<bootRow, bootCache, barred, writes, mixed, overruled, unsent, configured>>

ResponseNotSent(b) ==
  /\ At(b, "respond")
  /\ End(b)
  /\ mixed' = TRUE
  /\ UNCHANGED <<bootRow, bootCache, barred, bootTold, writes, overruled, unsent, configured>>

StationNotStored(b) ==
  /\ At(b, "respond")
  /\ bootTold' = boot[b].status
  /\ End(b)
  /\ mixed' = TRUE
  /\ UNCHANGED <<bootRow, bootCache, barred, writes, overruled, unsent, configured>>

CacheBootStatus(b) ==
  /\ At(b, "cache")
  /\ bootCache' = IF boot[b].status # "Accepted" /\ boot[b].cached # boot[b].status
                  THEN boot[b].status ELSE bootCache
  /\ GoTo(b, "record")
  /\ UNCHANGED <<bootRow, barred, bootTold, writes, mixed, overruled, unsent, configured>>

(* updateOcpp16BootConfig writes the status answered over whatever the row *)
(* has by now.  A pending station is configured, unless boot_status says   *)
(* that this is under way.                                                 *)
UpdateBootConfig(b) ==
  /\ At(b, "record")
  /\ bootRow' = IF bootRow = None THEN NewRow(boot[b].status)
                ELSE [bootRow EXCEPT !.status = boot[b].status]
  /\ IF boot[b].status = "Pending" /\ boot[b].cached # "Pending" THEN GoTo(b, "configure")
     ELSE End(b)
  /\ UNCHANGED <<bootCache, barred, bootTold, writes, mixed, overruled, unsent, configured>>

-----------------------------------------------------------------------------
(* The configuration. *)

StartConfiguring(b) ==
  /\ At(b, "configure")
  /\ boot' = [boot EXCEPT ![b].left = Configurations, ![b].pc = "change"]
  /\ barred' = barred \ {"ChangeConfiguration"}
  /\ UNCHANGED <<bootRow, bootCache, bootTold, writes, mixed, overruled, unsent, configured>>

\* Mutant: the last send decides.
SendChangeConfigurationLast(b, sent) ==
  /\ At(b, "change") /\ boot[b].left > 0
  /\ boot' = [boot EXCEPT ![b].changeOnPending = ~sent, ![b].pc = "wait"]
  /\ unsent' = IF sent THEN unsent ELSE unsent \union {b}
  /\ UNCHANGED <<bootRow, bootCache, barred, bootTold, writes, mixed, overruled, configured>>

(* One that is not sent is noted, and waited for all the same.             *)
SendChangeConfiguration(b, sent) ==
  /\ At(b, "change") /\ boot[b].left > 0
  /\ boot' = [boot EXCEPT ![b].changeOnPending = @ \/ ~sent, ![b].pc = "wait"]
  /\ unsent' = IF sent THEN unsent ELSE unsent \union {b}
  /\ UNCHANGED <<bootRow, bootCache, barred, bootTold, writes, mixed, overruled, configured>>

(* The answer, or maxCachingSeconds are over. *)
EndWait(b) ==
  /\ At(b, "wait")
  /\ boot' = [boot EXCEPT ![b].left = @ - 1, ![b].pc = "change"]
  /\ UNCHANGED <<bootRow, bootCache, barred, bootTold, writes, mixed, overruled, unsent, configured>>

SendGetConfiguration(b, sent) ==
  /\ At(b, "change") /\ boot[b].left = 0
  /\ barred' = barred \ {"GetConfiguration"}
  /\ boot' = [boot EXCEPT ![b].getOnPending = ~sent, ![b].pc = "flags"]
  /\ configured' = (configured \/ (sent /\ b \notin unsent))
  /\ unsent' = unsent \ {b}
  /\ UNCHANGED <<bootRow, bootCache, bootTold, writes, mixed, overruled>>

ToFlag(b) == IF b THEN "yes" ELSE "no"

UpdateFlags(b) ==
  /\ At(b, "flags")
  /\ bootRow' = IF bootRow = None THEN None
                ELSE [bootRow EXCEPT !.changeOnPending = ToFlag(boot[b].changeOnPending),
                                     !.getOnPending = ToFlag(boot[b].getOnPending)]
  /\ GoTo(b, "trigger")
  /\ UNCHANGED <<bootCache, barred, bootTold, writes, mixed, overruled, unsent, configured>>

(* The station is asked to boot again; it may at any time.                 *)
TriggerMessage(b) ==
  /\ At(b, "trigger")
  /\ barred' = barred \ {"TriggerMessage"}
  /\ End(b)
  /\ UNCHANGED <<bootRow, bootCache, bootTold, writes, mixed, overruled, unsent, configured>>

-----------------------------------------------------------------------------
(* An operator writes the status (putBootConfig). *)
PutBootConfig(status) ==
  /\ writes < MaxWrites
  /\ writes' = writes + 1
  /\ bootRow' = IF bootRow = None THEN NewRow(status) ELSE [bootRow EXCEPT !.status = status]
  /\ overruled' = TRUE
  /\ UNCHANGED <<bootCache, barred, boot, bootTold, mixed, unsent, configured>>

Next ==
  \/ \E b \in Boots :
       \/ BootNotification(b) \/ ReadCachedStatus(b) \/ CachePermissions(b)
       \/ SendResponse(b) \/ ResponseNotSent(b) \/ StationNotStored(b)
       \/ CacheBootStatus(b) \/ UpdateBootConfig(b) \/ StartConfiguring(b) \/ EndWait(b) \/ UpdateFlags(b) \/ TriggerMessage(b)
       \/ \E sent \in BOOLEAN : SendChangeConfiguration(b, sent) \/ SendGetConfiguration(b, sent)
  \/ \E status \in BootStatuses : PutBootConfig(status)

Spec == Init /\ [][Next]_boot16Vars

-----------------------------------------------------------------------------
(* Properties. *)

(* A station that nobody has accepted is accepted only after all its       *)
(* configurations and GetConfiguration were sent by one boot, however many *)
(* boots run side by side and skip or repeat the configuration.            *)
AcceptedIsConfigured ==
  bootTold = "Accepted" /\ ~overruled /\ UnknownChargerStatus # "Accepted" => configured

(* When no boot is being answered, what the station may send, the cached   *)
(* status and the row follow the last answer, whatever configuration is    *)
(* still going on: if no two boots were answered at once and no answering  *)
(* failed.  An operator may have changed the row since, not the others.  *)
PermissionsFollow ==
  Answering = {} /\ ~mixed /\ bootTold # None =>
    /\ bootCache = IF bootTold = "Accepted" THEN None ELSE bootTold
    /\ IF bootTold = "Accepted" THEN barred = {} ELSE "other" \in barred
    /\ ~overruled => bootRow # None /\ bootRow.status = bootTold
===============================================================================
