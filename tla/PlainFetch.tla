---------------------------- MODULE PlainFetch -----------------------------
(***************************************************************************)
(* What an archive writer may expect of its Fetcher (internal/fetch), with *)
(* no read-ahead in between: every file of the window is asked for in plan *)
(* order, one at a time, and the answer is a body of that very file, an    *)
(* upstream error, or the end of the request.  Prefetch implements this:   *)
(* the writer cannot tell a Prefetcher from the plain HTTP fetcher, except *)
(* by how long it waits.                                                   *)
(***************************************************************************)
EXTENDS Integers, RangeClip

CONSTANTS NFiles, Size, Url, Start, Windows, GapFetches, LiveFaults,
          ClientMayLeave, NoUrl

VARIABLES
    window,     \* the byte window of the request
    ctxDone,    \* the request context is cancelled
    faults,     \* whose fault has cost the archive: "live" upstream's, "client"
    at,         \* the file being emitted
    phase,      \* "file", "fetching", "copy", "finished" or "failed"
    gap,        \* is the fetch in progress the gap read of a CRC resume?
    body        \* whose body is being copied; NoUrl when none is open

vars == <<window, ctxDone, faults, at, phase, gap, body>>

Cut(i) == Clip(Start[i], window.b, window.e, Size[i])

Wanted == at <= NFiles /\ ~Cut(at).skip

Init ==
    /\ window \in Windows /\ ctxDone = FALSE /\ faults = {}
    /\ at = 1 /\ phase = "file" /\ gap = FALSE /\ body = NoUrl

Skip ==
    /\ phase = "file" /\ at <= NFiles /\ Cut(at).skip
    /\ at' = at + 1
    /\ UNCHANGED <<window, ctxDone, faults, phase, gap, body>>

\* Ask for the content of the file, or first for the gap in front of a left cut.
Fetch ==
    /\ phase = "file" /\ Wanted
    /\ phase' = "fetching"
    /\ gap' \in (IF GapFetches /\ Cut(at).b > 0 THEN BOOLEAN ELSE {FALSE})
    /\ UNCHANGED <<window, ctxDone, faults, at, body>>

Answer ==
    /\ phase = "fetching"
    /\ phase' = "copy" /\ body' = Url[at]
    /\ UNCHANGED <<window, ctxDone, faults, at, gap>>

\* A read fails because upstream does or because the context is cancelled; only
\* the gap's may be done without.
Fail ==
    /\ phase \in {"fetching", "copy"}
    /\ \/ LiveFaults /\ faults' = IF gap THEN faults ELSE faults \cup {"live"}
       \/ ctxDone /\ UNCHANGED faults
    /\ body' = NoUrl
    /\ phase' = IF gap THEN "file" ELSE "failed"
    /\ gap' = FALSE
    /\ UNCHANGED <<window, ctxDone, at>>

Copied ==
    /\ phase = "copy"
    /\ body' = NoUrl /\ phase' = "file" /\ gap' = FALSE
    /\ at' = IF gap THEN at ELSE at + 1
    /\ UNCHANGED <<window, ctxDone, faults>>

ClientFails ==
    /\ ClientMayLeave /\ ~gap
    /\ phase = "copy" \/ (phase = "file" /\ Wanted)
    /\ faults' = faults \cup {"client"}
    /\ body' = NoUrl /\ phase' = "failed"
    /\ UNCHANGED <<window, ctxDone, at, gap>>

Finish ==
    /\ phase = "file" /\ at > NFiles
    /\ phase' = "finished"
    /\ UNCHANGED <<window, ctxDone, faults, at, gap, body>>

\* The client leaves, or net/http closes the request's books.
Cancel ==
    /\ ~ctxDone /\ (ClientMayLeave \/ phase \in {"finished", "failed"})
    /\ ctxDone' = TRUE
    /\ UNCHANGED <<window, faults, at, phase, gap, body>>

Next == Skip \/ Fetch \/ Answer \/ Fail \/ Copied \/ ClientFails \/ Finish \/ Cancel

Spec == Init /\ [][Next]_vars
=============================================================================
