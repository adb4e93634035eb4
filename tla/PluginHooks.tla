------------------------------ MODULE PluginHooks ------------------------------
(***************************************************************************)
(* What the plugin's hooks keep of a session in its state directory, and   *)
(* what the Stop hook makes of it (post-tool-use.mjs, stop.mjs): an edit   *)
(* notes its file in modified-files and its second in last-modified-ts, a  *)
(* verification that succeeds leaves its second in verify-done, and a      *)
(* completion is let through when verify-done is not the older of the two. *)
(*                                                                         *)
(* Claude Code waits for the hook of an edit and for the Stop hook; the    *)
(* hook of a Bash command is `async` in settings-fragment.json and runs    *)
(* beside whatever comes next.  A file of 0 is missing; verify-done is     *)
(* HalfWritten from its truncation until its second is down, and reads as  *)
(* NaN.                                                                    *)
(* Writes do not fail here, and Claude Code tells the Stop hook its reason *)
(* in time.                                                                *)
(***************************************************************************)
EXTENDS Integers

CONSTANTS MaxSeconds, MaxHooks        \* bounds of the exploration

VARIABLES time,          \* in seconds
          hasChecks,     \* does the project name any?
          modifiedLog,   \* modified-files: "missing", "other" or "source" files
          modifiedTs,    \* last-modified-ts
          verifyTs,      \* verify-done
          hooks,         \* of Bash commands that verified something
          waited,        \* "idle", or the hook that is waited for
          answer,        \* to the last completion: "none", "allowed" or "blocked"
          lastEdit,      \* second of the last edit's hook
          lastCheck,     \* newest second of the hook of a verification
          unverified     \* was source edited since the last verification?

edits    == <<modifiedLog, modifiedTs>>
newest   == <<lastEdit, lastCheck>>
hookVars == <<time, hasChecks, edits, verifyTs, hooks, waited, answer, newest, unverified>>

HalfWritten == -1
NoHook == [pc |-> "none", at |-> 0]

SecondPasses ==
  /\ time < MaxSeconds /\ time' = time + 1
  /\ UNCHANGED <<hasChecks, edits, verifyTs, hooks, waited, answer, newest, unverified>>

Edit(kind) ==
  /\ waited = "idle" /\ waited' = kind
  /\ unverified' = (unverified \/ kind = "source") /\ answer' = "none"
  /\ UNCHANGED <<time, hasChecks, edits, verifyTs, hooks, newest>>

(* modified-files is appended to, so source once is source until ClearState. *)
EditHook ==
  /\ waited \in {"other", "source"} /\ waited' = "idle"
  /\ modifiedLog' = IF "source" \in {modifiedLog, waited} THEN "source" ELSE "other"
  /\ modifiedTs' = time /\ lastEdit' = time
  /\ UNCHANGED <<time, hasChecks, verifyTs, hooks, answer, lastCheck, unverified>>

(* A command that fails, or verifies nothing, has a hook that changes none  *)
(* of this.                                                                 *)
CheckPasses ==
  /\ waited = "idle"
  /\ \E h \in 1 .. MaxHooks :
       hooks[h].pc = "none" /\ hooks' = [hooks EXCEPT ![h].pc = "started"]
  /\ unverified' = FALSE /\ answer' = "none"
  /\ UNCHANGED <<time, hasChecks, edits, verifyTs, waited, newest>>

HookStamps(h) ==
  /\ hooks[h].pc = "started"
  /\ hooks' = [hooks EXCEPT ![h] = [pc |-> "stamped", at |-> time]]
  /\ lastCheck' = time
  /\ UNCHANGED <<time, hasChecks, edits, verifyTs, waited, answer, lastEdit, unverified>>

HookOpens(h) ==
  /\ hooks[h].pc = "stamped"
  /\ hooks' = [hooks EXCEPT ![h].pc = "open"]
  /\ verifyTs' = HalfWritten
  /\ UNCHANGED <<time, hasChecks, edits, waited, answer, newest, unverified>>

HookWrites(h) ==
  /\ hooks[h].pc = "open"
  /\ hooks' = [hooks EXCEPT ![h] = NoHook]
  /\ verifyTs' = hooks[h].at
  /\ UNCHANGED <<time, hasChecks, edits, waited, answer, newest, unverified>>

(* Mutant of Vouched: any verification will do. *)
VouchedOnce == verifyTs > 0

Vouched == verifyTs >= modifiedTs /\ verifyTs > 0

(* A stop for another reason, or without source files, is let through; but  *)
(* safeExit(0) only schedules the exit, so that what follows still runs: a  *)
(* vouched state is cleared all the same, and only the block comes too late.*)
Stop(reason) ==
  /\ waited = "idle"
  /\ waited' = IF modifiedLog # "missing" /\ Vouched THEN "clean" ELSE "idle"
  /\ answer' = CASE reason = "other" -> "none"
                 [] reason = "complete" /\ modifiedLog = "source" /\ ~Vouched /\ hasChecks
                      -> "blocked"
                 [] OTHER -> "allowed"
  /\ UNCHANGED <<time, hasChecks, edits, verifyTs, hooks, newest, unverified>>

(* What a hook writes to a file that was unlinked in its hands is lost. *)
ClearState ==
  /\ waited = "clean" /\ waited' = "idle"
  /\ modifiedLog' = "missing" /\ modifiedTs' = 0 /\ verifyTs' = 0
  /\ hooks' = [h \in 1 .. MaxHooks |->
                 IF hooks[h].pc = "open" THEN NoHook ELSE hooks[h]]
  /\ UNCHANGED <<time, hasChecks, answer, newest, unverified>>

HooksInit ==
  /\ time = 1 /\ hasChecks \in BOOLEAN
  /\ modifiedLog = "missing" /\ modifiedTs = 0 /\ verifyTs = 0
  /\ hooks = [h \in 1 .. MaxHooks |-> NoHook]
  /\ waited = "idle" /\ answer = "none"
  /\ lastEdit = 0 /\ lastCheck = 0 /\ unverified = FALSE

HooksNext ==
  \/ SecondPasses
  \/ \E kind \in {"other", "source"} : Edit(kind)
  \/ EditHook \/ CheckPasses
  \/ \E h \in 1 .. MaxHooks : HookStamps(h) \/ HookOpens(h) \/ HookWrites(h)
  \/ \E reason \in {"complete", "other"} : Stop(reason)
  \/ ClearState

HooksSpec == HooksInit /\ [][HooksNext]_hookVars

-----------------------------------------------------------------------------
(* Properties. *)

(* With checks to ask for and source files modified, a completion is let    *)
(* through only if the hook of a verification took its second no earlier    *)
(* than the hook of the last edit: not on what an earlier completion left   *)
(* behind or a late hook put back, and not while verify-done is half        *)
(* written (stop.mjs, post-tool-use.mjs).                                   *)
AllowedOnEvidence ==
  answer = "allowed" /\ modifiedLog = "source" /\ hasChecks => lastEdit <= lastCheck

(* stop.mjs takes verify-done for a verification after the last edit of a   *)
(* source file: then none is unverified when it lets the completion go.     *)
VerifiedAfterModified ==
  waited = "clean" /\ answer = "allowed" /\ modifiedLog = "source" => ~unverified
=============================================================================
