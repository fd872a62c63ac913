------------------------------ MODULE Reloads ------------------------------
(* The three loops that poll a source for a newer version: WatchConfig on    *)
(* the configuration file, helix-gen generate --watch on the IDL file, and   *)
(* HelixVault's polling of a secret.  The writer of a file truncates and     *)
(* writes it, or removes and creates it; every write has a later             *)
(* modification time than the one before.                                    *)
EXTENDS Naturals

CONSTANT MaxTime    \* bound on the writes, through the clock

VARIABLES
    kind,       \* "config", "generate" or "vault"
    now,        \* the file system's clock
    text,       \* "whole", "partial" (cannot be parsed) or "absent"
    ver,        \* the version saved last
    mtime,      \* the modification time
    pc,         \* where the loop is
    last,       \* lastMod, last
    applied,    \* the version in use, 0 before the first
    late        \* the last write came after the loop took its first "last"

vars == <<kind, now, text, ver, mtime, pc, last, applied, late>>

Init ==
    /\ kind \in {"config", "generate", "vault"}
    /\ now = 1 /\ text = "whole" /\ ver = 1 /\ mtime = 1
    /\ pc = "first" /\ last = 0 /\ applied = 0 /\ late = FALSE

BeginSave ==
    /\ text = "whole" /\ now < MaxTime
    /\ now' = now + 1 /\ late' = TRUE
    /\ text' \in {"partial", "absent"}
    /\ mtime' = IF text' = "partial" THEN now' ELSE mtime
    /\ UNCHANGED <<kind, ver, pc, last, applied>>
FinishSave ==
    /\ text # "whole"
    /\ now' = now + 1 /\ late' = TRUE
    /\ text' = "whole" /\ ver' = ver + 1 /\ mtime' = now'
    /\ UNCHANGED <<kind, pc, last, applied>>

\* LoadConfig, generate, reloadKeys: what cannot be read or parsed leaves the
\* version in use as it is.
Loaded == IF text = "whole" THEN ver ELSE applied

\* The load before the loop; a generate that fails here exits with 1.
FirstLoad ==
    /\ pc = "first"
    /\ applied' = Loaded
    /\ pc' = IF kind = "generate" /\ text # "whole" THEN "exited" ELSE "baseline"
    /\ UNCHANGED <<kind, now, text, ver, mtime, last, late>>

\* WatchConfig takes the file's time, generate the time it is.
Baseline ==
    /\ pc = "baseline"
    /\ last' = CASE kind = "generate" -> now
                 [] kind = "config" /\ text # "absent" -> mtime
                 [] OTHER -> last
    /\ pc' = "sleep" /\ late' = FALSE
    /\ UNCHANGED <<kind, now, text, ver, mtime, applied>>

\* The timer fires: os.Stat, or for the vault's ticker no test at all.
Poll ==
    /\ pc = "sleep"
    /\ kind # "vault" => text # "absent" /\ mtime > last
    /\ last' = IF kind = "vault" THEN last ELSE mtime
    /\ pc' = "load"
    /\ UNCHANGED <<kind, now, text, ver, mtime, applied, late>>

\* Mutant: the loop returns when a load fails.
LoadGivesUp ==
    /\ pc = "load"
    /\ applied' = Loaded /\ pc' = IF text = "whole" THEN "sleep" ELSE "gone"
    /\ UNCHANGED <<kind, now, text, ver, mtime, last, late>>
Load ==
    /\ pc = "load"
    /\ applied' = Loaded /\ pc' = "sleep"
    /\ UNCHANGED <<kind, now, text, ver, mtime, last, late>>

\* StopPolling closes stopChan; the select may take a tick before it.
StopPolling ==
    /\ kind = "vault" /\ pc = "sleep"
    /\ pc' = "stopped"
    /\ UNCHANGED <<kind, now, text, ver, mtime, last, applied, late>>

Next == BeginSave \/ FinishSave \/ FirstLoad \/ Baseline \/ Poll \/ Load \/ StopPolling
Loop == FirstLoad \/ Baseline \/ Poll \/ Load

\* The goroutine runs and its timer fires; a save that began ends.
Fairness == WF_vars(Loop) /\ WF_vars(FinishSave)
Spec == Init /\ [][Next]_vars /\ Fairness

\* A version saved after the loop started is in use in the end, and every read
\* that fell into a save is made good by the next: once the writes are over,
\* the loop has applied the last of them, unless it was stopped or its first
\* generate failed.  The vault's loop needs no write after its start.
Caught == pc \notin {"stopped", "exited"} /\ (late \/ kind = "vault") => applied = ver
LatestApplied == <>[]Caught
=============================================================================
