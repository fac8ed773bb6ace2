------------------------------ MODULE Metrics ------------------------------
(***************************************************************************)
(* How the end of an archive request is classified (services/metrics.go).  *)
(* An error is known by what is in its chain: "write" (EPIPE, ECONNRESET   *)
(* or context.Canceled of the client's connection), "fetch" (a fetch.Error),*)
(* "reset" (a fetch.Error with ECONNRESET below it), "length" (net/http    *)
(* refuses bytes beyond the Content-Length), "nil".                        *)
(***************************************************************************)

Outcomes == {"ok", "client_gone", "upstream_error", "error"}

\* Mutant of ArchiveOutcome: the error is asked first, the context not at all.
ArchiveOutcomeNoCtx(ctxDone, e) ==
    CASE e = "nil" -> "ok"
      [] e \in {"write", "reset"} -> "client_gone"
      [] e = "fetch" -> "upstream_error"
      [] OTHER -> "error"

\* archiveOutcome: the context is asked before the error; EPIPE, ECONNRESET and
\* context.Canceled count as the client's doing wherever in the chain they are.
ArchiveOutcome(ctxDone, e) ==
    CASE e = "nil" -> "ok"
      [] e # "nil" /\ (ctxDone \/ e \in {"write", "reset"}) -> "client_gone"
      [] ~ctxDone /\ e = "fetch" -> "upstream_error"
      [] OTHER -> "error"
=============================================================================
