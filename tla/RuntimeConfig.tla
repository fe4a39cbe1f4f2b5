----------------------------- MODULE RuntimeConfig -----------------------------
(***************************************************************************)
(* The settings that can be changed without a restart are a JSON file      *)
(* (backend/runtime_config.py), rewritten through a temporary file under a *)
(* lock file.  A waiter that times out removes the lock, whoever holds it, *)
(* as the code that ends every update does: that frees a lock whose holder *)
(* died, and takes one from a holder that is alive.                        *)
(*                                                                         *)
(* A content of the file is the set of updates it shows; a file that is    *)
(* not valid JSON is read as empty.                                        *)
(*                                                                         *)
(* A definition X_Y just before a definition X is a faulty X: a slip the   *)
(* properties are tested against.  Nothing uses it.                        *)
(***************************************************************************)
EXTENDS Naturals

CONSTANTS
  Servers,   \* web server processes, with one update (POST /config/providers) each
  NoServer   \* stands for the holder of a free lock

ASSUME ServersNamed == NoServer \notin Servers

VARIABLES
  file,     \* the settings file
  tmp,      \* the contents of the temporary file next to it: one, or none
  lock,     \* who created the lock file
  step,     \* where each server is in its update
  merged,   \* the content it is about to write
  target,   \* the file its open handle writes to
  forced    \* a lock was removed although its holder was alive

configVars == <<file, tmp, lock, step, merged, target, forced>>

-----------------------------------------------------------------------------
Steps == {"idle", "waiting", "locked", "merged", "opened", "written", "ok", "error",
          "done", "failed", "dead"}

Contents == SUBSET Servers

InitConfig ==
  /\ file = {}
  /\ tmp = {}
  /\ lock = NoServer
  /\ step = [s \in Servers |-> "idle"]
  /\ merged = [s \in Servers |-> {}]
  /\ target = [s \in Servers |-> "none"]
  /\ forced = FALSE

Go(s, from, to) == step[s] = from /\ step' = [step EXCEPT ![s] = to]

\* An accepted request.  Its provider names were checked before.
Request(s) ==
  /\ Go(s, "idle", "waiting")
  /\ UNCHANGED <<file, tmp, lock, merged, target, forced>>

\* os.open with O_CREAT | O_EXCL.
Acquire_Shared(s) ==
  /\ Go(s, "waiting", "locked")
  /\ lock' = s
  /\ UNCHANGED <<file, tmp, merged, target, forced>>
Acquire(s) ==
  /\ lock = NoServer
  /\ Go(s, "waiting", "locked")
  /\ lock' = s
  /\ UNCHANGED <<file, tmp, merged, target, forced>>

\* Five seconds are over and the lock file is there.
TimeOut(s) ==
  /\ lock # NoServer
  /\ Go(s, "waiting", "error")
  /\ UNCHANGED <<file, tmp, lock, merged, target, forced>>

Merge(s) ==
  /\ Go(s, "locked", "merged")
  /\ merged' = [merged EXCEPT ![s] = file \cup {s}]
  /\ UNCHANGED <<file, tmp, lock, target, forced>>

\* Opening the temporary file truncates it.
Open(s) ==
  /\ Go(s, "merged", "opened")
  /\ tmp' = {{}}
  /\ target' = [target EXCEPT ![s] = "tmp"]
  /\ UNCHANGED <<file, lock, merged, forced>>

\* Two handles on one file write over each other, from the start: what is left may be
\* the last text or no JSON at all.
Write(s) ==
  LET alone == \A r \in Servers \ {s} : target[r] # target[s]
  IN  /\ Go(s, "opened", "written")
      /\ \E text \in IF alone THEN {merged[s]} ELSE {merged[s], {}} :
           IF target[s] = "tmp"
           THEN tmp' = {text} /\ UNCHANGED file
           ELSE file' = text /\ UNCHANGED tmp
      /\ UNCHANGED <<lock, merged, target, forced>>

\* os.replace.  A handle that is open on the temporary file stays with it.
Replace(s) ==
  /\ step[s] = "written"
  /\ IF tmp = {}
     THEN /\ step' = [step EXCEPT ![s] = "error"]
          /\ target' = [target EXCEPT ![s] = "none"]
          /\ UNCHANGED <<file, tmp>>
     ELSE /\ step' = [step EXCEPT ![s] = "ok"]
          /\ tmp' = {}
          /\ file' \in tmp
          /\ target' = [r \in Servers |->
               CASE r = s -> "none"
                 [] r # s /\ target[r] = "tmp" -> "file"
                 [] OTHER -> target[r]]
  /\ UNCHANGED <<lock, merged, forced>>

\* The disk is full, say.
DiskFails(s) ==
  /\ step[s] \in {"opened", "written"}
  /\ step' = [step EXCEPT ![s] = "error"]
  /\ target' = [target EXCEPT ![s] = "none"]
  /\ UNCHANGED <<file, tmp, lock, merged, forced>>

\* The finally clause: unlink, whoever's lock it is.
Release(s) ==
  /\ step[s] \in {"ok", "error"}
  /\ step' = [step EXCEPT ![s] = IF step[s] = "ok" THEN "done" ELSE "failed"]
  /\ lock' = NoServer
  /\ forced' = (forced \/ (lock \notin {s, NoServer} /\ step[lock] # "dead"))
  /\ UNCHANGED <<file, tmp, merged, target>>

\* The process is killed: its handles are closed, its lock file stays.
Die(s) ==
  /\ step[s] \in {"waiting", "locked", "merged", "opened", "written", "ok", "error"}
  /\ step' = [step EXCEPT ![s] = "dead"]
  /\ target' = [target EXCEPT ![s] = "none"]
  /\ UNCHANGED <<file, tmp, lock, merged, forced>>

Update(s) ==
  Acquire(s) \/ TimeOut(s) \/ Merge(s) \/ Open(s) \/ Write(s) \/ Replace(s) \/ Release(s)

NextConfig == \E s \in Servers : Request(s) \/ Update(s) \/ DiskFails(s) \/ Die(s)

ConfigSpec == InitConfig /\ [][NextConfig]_configVars

-----------------------------------------------------------------------------
\* The types of the settings file, its lock and its writers.
ConfigTypeOK ==
  /\ file \in Contents
  /\ tmp \subseteq Contents
  /\ lock \in Servers \cup {NoServer}
  /\ step \in [Servers -> Steps]
  /\ merged \in [Servers -> Contents]
  /\ target \in [Servers -> {"none", "tmp", "file"}]
  /\ forced \in BOOLEAN

\* An update that was answered with success stays in the file: no other update that runs
\* at the same time, times out, fails or dies half-way undoes it, as long as no lock is
\* taken from a process that is alive.
UpdatesAreKept == forced \/ \A s \in Servers : step[s] = "done" => s \in file
=============================================================================
