----------------------------- MODULE FetchReport -----------------------------
(***************************************************************************)
(* What a fetch of a provider goes through (see Providers), and what is    *)
(* asked of its answer.                                                    *)
(***************************************************************************)
CONSTANTS Boards, \* the exchange lists that make up the security master
          None

VARIABLES request,   \* the request being served, or None
          queue,     \* the calls still to make, each a list of keys
          again,     \* whether the top-up pass is running
          attempt,   \* how often the call at the head has failed
          got,       \* the keys of the rows collected
          content,   \* whether any row was collected at all
          failures,  \* whether the report has a failure to tell
          answer,    \* what fetch returned, or None
          asked,     \* how many calls named each key; two stands for more
          heard,     \* the keys the source told of in any readable answer
          refused    \* the keys of the calls of the first pass given up

pvars == <<request, queue, again, attempt, got, content, failures, answer,
           asked, heard, refused>>

\* Industry queries go by board name, so their coverage is not judged
\* symbol by symbol.
BySymbol(r) == r.dataset # "industry"
Batched(r) == r.service \in {"westock", "neodata"}

\* The values a request is answered for.
RequestedKeys(r) ==
  IF r.dataset = "securities" THEN Boards ELSE {r.symbols[i] : i \in DOMAIN r.symbols}

-----------------------------------------------------------------------------
(* The properties. *)

\* What a batching service returns accounts for the whole request: every row
\* the source told of is there, whatever failed before or after it, every
\* other symbol is named missing, a batch given up is mentioned, and where
\* nothing is mentioned a missing symbol was called for a second time.
CoverageIsHonest ==
  (Batched(request) /\ BySymbol(request) /\ answer.status = "VALUE") =>
    /\ answer.rows = heard
    /\ answer.missing = RequestedKeys(request) \ heard
    /\ refused # {} => answer.message
    /\ ~answer.message => \A s \in answer.missing : asked[s] = 2

\* An empty answer tells an empty source from one that failed: NULL says
\* that every call was answered, SOURCE_ERROR that one was not.
EmptyIsExplained ==
  Batched(request) =>
    /\ answer.status = "NULL" => refused = {} /\ heard = {}
    /\ answer.status = "SOURCE_ERROR" => refused # {} /\ heard = {}

\* AkShare's batch contract: a value holds every symbol asked for (every
\* exchange list, for the security master), so no partial market passes for
\* a whole one.
AllOrNothing ==
  (request.service = "akshare" /\ answer.status = "VALUE") =>
    answer.rows = RequestedKeys(request)

\* What fetch reports is what the source said, under every service.
ReportIsTrue ==
  answer # None => CoverageIsHonest /\ EmptyIsExplained /\ AllOrNothing
=============================================================================
