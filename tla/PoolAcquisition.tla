---------------------------- MODULE PoolAcquisition ----------------------------
(***************************************************************************)
(* The acquisition of the BRID mixture pool (brid_pool_acquire): one run   *)
(* after another over the same directory, each reusing what is there,      *)
(* fetching what is missing with one polite range request, and locking the *)
(* pool once it is complete.  A run may be killed anywhere.  The members   *)
(* are the audio of a recording and its annotation, in turn.               *)
(***************************************************************************)
EXTENDS Integers, Sequences, FiniteSets

CONSTANTS Members,    \* of the pool
          Interval,   \* between two requests of a run
          MaxRuns, Clock \* bounds: how many runs, and until when
ASSUME PoolAssumption == Members \in Nat \ {0} /\ {Interval, MaxRuns, Clock} \subseteq Nat

Contents == {"absent", "bad", "good"}
IsAudio(i) == i % 2 = 1

VARIABLES
    found,         \* what was in the directory before the first run
    reuse,         \* what the reused directories hold
    files, parts,  \* the members in place, and those under a temporary name
    lock,          \* "absent", "torn" or "whole"
    attempt, verify, \* the runs so far, whether this one only verifies
    doing, member, \* what it does, and for which member
    requests,      \* when it asked the source
    next_request, now,
    verified       \* whether the last run verified the pool
pool_vars == <<found, reuse, files, parts, lock, attempt, verify, doing, member, requests,
               next_request, now, verified>>
pool_disk == <<found, reuse, files, parts, lock>>

PoolIdle ==
    /\ files = found /\ parts = {} /\ lock = "absent" /\ attempt = 0 /\ verify = FALSE
    /\ doing = "nothing" /\ member = 1 /\ requests = <<>> /\ next_request = 0 /\ now = 0
    /\ verified = FALSE
PoolInit ==
    /\ found \in [1..Members -> Contents]
    /\ reuse \in {f \in [1..Members -> Contents] : \A i \in 1..Members : ~IsAudio(i) => f[i] = "absent"}
    /\ PoolIdle

\* A pool that is locked is not acquired again; one that is not cannot be verified.
Begin ==
    /\ doing = "nothing" /\ attempt < MaxRuns
    /\ attempt' = attempt + 1 /\ verify' \in BOOLEAN
    /\ doing' = IF (verify' <=> lock # "absent") THEN "member" ELSE "nothing"
    /\ member' = 1 /\ requests' = <<>> /\ next_request' = 0 /\ now' = 0 /\ verified' = FALSE
    /\ UNCHANGED pool_disk

InPlace == files[member]
Elsewhere == IF verify \/ ~IsAudio(member) THEN "absent" ELSE reuse[member]
Fails ==
    /\ doing' = "nothing"
    /\ UNCHANGED <<pool_disk, attempt, verify, member, requests, next_request, now, verified>>

\* What is there is read and verified; what is elsewhere is verified and installed.
Reuse ==
    /\ doing = "member" /\ member <= Members
    /\ InPlace = "good" \/ (InPlace = "absent" /\ Elsewhere = "good")
    /\ IF InPlace = "good" THEN member' = member + 1 /\ UNCHANGED doing
       ELSE doing' = "install" /\ UNCHANGED member
    /\ UNCHANGED <<pool_disk, attempt, verify, requests, next_request, now, verified>>
Annotate ==
    /\ doing = "member" /\ member <= Members /\ ~IsAudio(member) /\ InPlace = "absent" /\ ~verify
    /\ doing' = "install"
    /\ UNCHANGED <<pool_disk, attempt, verify, member, requests, next_request, now, verified>>
Drifted ==
    /\ doing = "member" /\ member <= Members
    /\ InPlace = "bad" \/ (InPlace = "absent" /\ (Elsewhere = "bad" \/ verify))
    /\ Fails

\* One request for one member, no sooner than two seconds after the one before; what comes
\* back is refused unless it is the member that was asked for.
Fetch ==
    /\ doing = "member" /\ member <= Members /\ IsAudio(member) /\ ~verify
    /\ InPlace = "absent" /\ Elsewhere = "absent" /\ now >= next_request
    /\ doing' = "asked"
    /\ requests' = Append(requests, now)
    /\ next_request' = now + Interval
    /\ UNCHANGED <<pool_disk, attempt, verify, member, now, verified>>
Received ==
    /\ doing = "asked"
    /\ doing' = "install"
    /\ UNCHANGED <<pool_disk, attempt, verify, member, requests, next_request, now, verified>>
TimePasses ==
    /\ doing # "nothing" /\ now < Clock
    /\ now' = now + 1
    /\ UNCHANGED <<pool_disk, attempt, verify, doing, member, requests, next_request, verified>>

\* Installing: a new temporary file, written, flushed and renamed over nothing.
\* Mutant: the destination itself is opened and written.
OpenDestination ==
    /\ doing = "install" /\ member \notin parts
    /\ doing' = "write"
    /\ parts' = parts \cup {member} /\ files' = [files EXCEPT ![member] = "bad"]
    /\ UNCHANGED <<found, reuse, lock, attempt, verify, member, requests, next_request, now, verified>>
OpenTemporary ==
    /\ doing = "install" /\ member \notin parts
    /\ doing' = "write"
    /\ parts' = parts \cup {member} /\ UNCHANGED files
    /\ UNCHANGED <<found, reuse, lock, attempt, verify, member, requests, next_request, now, verified>>
LeftOver == doing = "install" /\ member \in parts /\ Fails
Rename ==
    /\ doing = "write"
    /\ files' = [files EXCEPT ![member] = "good"] /\ parts' = parts \ {member}
    /\ doing' = "member" /\ member' = member + 1
    /\ UNCHANGED <<found, reuse, lock, attempt, verify, requests, next_request, now, verified>>

\* A complete pool is locked, or compared with its lock.
OpenLock ==
    /\ doing = "member" /\ member > Members /\ ~verify
    /\ doing' = "lock"
    /\ lock' = "torn"
    /\ UNCHANGED <<found, reuse, files, parts, attempt, verify, member, requests, next_request, now, verified>>
WriteLock ==
    /\ doing = "lock"
    /\ doing' = "nothing" /\ lock' = "whole"
    /\ UNCHANGED <<found, reuse, files, parts, attempt, verify, member, requests, next_request, now, verified>>
CompareLock ==
    /\ doing = "member" /\ member > Members /\ verify
    /\ doing' = "nothing"
    /\ verified' = (lock = "whole")
    /\ UNCHANGED <<pool_disk, attempt, verify, member, requests, next_request, now>>

\* Refused by the source, out of space, interrupted, or killed.
Stops == doing # "nothing" /\ Fails
\* What a run left half written is removed by hand before the next one.
Tidied ==
    /\ doing = "nothing" /\ (parts # {} \/ lock = "torn")
    /\ parts' = {} /\ lock' = IF lock = "torn" THEN "absent" ELSE lock
    /\ UNCHANGED <<found, reuse, files, attempt, verify, doing, member, requests, next_request, now, verified>>

PoolNext ==
    \/ Begin \/ Reuse \/ Annotate \/ Drifted \/ Fetch \/ Received \/ TimePasses \/ OpenTemporary
    \/ LeftOver \/ Rename \/ OpenLock \/ WriteLock \/ CompareLock \/ Stops \/ Tidied
PoolSpec == PoolInit /\ [][PoolNext]_pool_vars

-----------------------------------------------------------------------------
\* Whatever is killed and run again: a member gets its name only whole and where nothing
\* was, a lock is complete only over a complete pool, a verification that succeeds saw both
\* and asked the source nothing, and a run asks only for audio that is nowhere, once for
\* each, never two requests within the interval.
PoolOK ==
    /\ \A i \in 1..Members : files[i] # found[i] => found[i] = "absent" /\ files[i] = "good"
    /\ lock = "whole" => \A i \in 1..Members : files[i] = "good"
    /\ verified => lock = "whole"
    /\ verify => requests = <<>>
    /\ \A i \in 2..Len(requests) : requests[i] - requests[i - 1] >= Interval
    /\ Len(requests) <= Cardinality({i \in 1..Members :
            IsAudio(i) /\ found[i] = "absent" /\ reuse[i] = "absent"})
=============================================================================
