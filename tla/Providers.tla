------------------------------ MODULE Providers ------------------------------
(***************************************************************************)
(* The four data providers behind one contract: `fetch` takes a request    *)
(* and returns a RawDataset whose status, rows and missing symbols a later *)
(* sync acts upon (data/providers).                                        *)
(*                                                                         *)
(*   westock   batches of codes to a command line tool, a failed call is   *)
(*             repeated, one top-up pass over the codes nobody answered    *)
(*   neodata   the same ladder over HTTP, with a cached token              *)
(*   akshare   one call per symbol (or per exchange list), all or nothing  *)
(*   local     one csv file                                                *)
(*                                                                         *)
(* A step is one call to the source and what fetch does with its outcome;  *)
(* the source is free to answer, to leave codes out, to fail, or to send   *)
(* something unreadable.  A row is known by the symbol it is about.        *)
(***************************************************************************)
EXTENDS FetchReport, Integers, Sequences, FiniteSets, SequencesExt

CONSTANTS Symbols,    \* what a caller may ask for
          NoSuffix,   \* the symbols among them without a known exchange suffix
          Requests,   \* the symbol lists callers pass
          BatchSize,  \* how many codes go into one call
          Attempts    \* how often one call is made before it counts as failed

Keys == Symbols \cup Boards

\* What a caller can ask of whom.
Wanted ==
  [service : {"westock"}, dataset : {"financial"}, symbols : Requests]
    \cup [service : {"neodata"}, dataset : {"valuation", "industry"},
          symbols : Requests]
    \cup [service : {"akshare"}, dataset : {"daily_bars", "securities"},
          symbols : Requests]
    \cup [service : {"local"}, dataset : {"daily_bars"}, symbols : Requests]

(***************************************************************************)
(* The calls of a request                                                  *)
(***************************************************************************)

\* Those of some values that stand in a list, each once, where it first
\* stood: a list without its repetitions is InOrder(s, ToSet(s)).
InOrder(s, values) ==
  LET places == {i \in DOMAIN s : s[i] \in values /\ \A j \in 1..(i - 1) : s[j] # s[i]}
  IN  [n \in 1..Cardinality(places) |->
         s[CHOOSE i \in places : Cardinality({j \in places : j <= i}) = n]]

Chunks(s) ==
  [i \in 1..((Len(s) + BatchSize - 1) \div BatchSize) |->
     SubSeq(s, (i - 1) * BatchSize + 1,
            IF i * BatchSize < Len(s) THEN i * BatchSize ELSE Len(s))]

Calls(r) ==
  CASE Batched(r) -> Chunks(InOrder(r.symbols, ToSet(r.symbols)))
    [] r.dataset = "securities" -> SetToSeq({<<board>> : board \in Boards})
    [] OTHER -> [i \in 1..Len(r.symbols) |-> <<r.symbols[i]>>]

\* What the caller got wrong raises before any call is made.
CallerError(r) ==
  \/ Batched(r) /\ r.symbols = <<>>
  \/ r.service = "westock" /\ ToSet(r.symbols) \cap NoSuffix # {}
  \/ r.service = "akshare" /\ r.dataset = "daily_bars"
       /\ ToSet(r.symbols) \cap NoSuffix # {}

\* The symbols asked for that no row is about.
MissingOf(r, rows) == IF BySymbol(r) THEN RequestedKeys(r) \ rows ELSE {}

\* In the order of the request, as the top-up pass asks for them.
MissingCalls(r, rows) ==
  Chunks(InOrder(r.symbols, MissingOf(r, rows)))

(***************************************************************************)
(* The neodata token                                                       *)
(***************************************************************************)

\* The candidate files in order of resolution: one that is absent, blank or
\* without a token is passed over, and the first that is none of these
\* decides.  A plain-text file has no date and counts as expired.
Tokens(files) ==
  LET telling == SelectSeq(files, LAMBDA f : f \notin {"absent", "blank", "no_token"})
  IN  IF telling = <<>> THEN "missing"
      ELSE CASE telling[1] = "fresh" -> "ok"
             [] telling[1] = "unreadable" -> "broken"
             [] OTHER -> "expired"

TokenFiles == {<<a, b>> : a \in {"absent", "no_token", "plain", "unreadable", "fresh"},
                          b \in {"absent", "stale", "fresh"}}

(***************************************************************************)
(* What fetch returns                                                      *)
(***************************************************************************)

Answer(status, rows, missing, message) ==
  [status |-> status, rows |-> rows, missing |-> missing, message |-> message]

Answers == [status : {"VALUE", "NULL", "SOURCE_ERROR", "raised"}, rows : SUBSET Keys,
            missing : SUBSET Keys, message : BOOLEAN]

Raised == Answer("raised", {}, {}, TRUE)

\* The metadata-only record every empty outcome shares.  The batching
\* services name what is missing and say why.
Emptied(r, status) ==
  IF Batched(r) THEN Answer(status, {}, RequestedKeys(r), TRUE)
  ELSE Answer(status, {}, {}, FALSE)

ProvidersAssumption ==
  /\ NoSuffix \subseteq Symbols
  /\ IsFiniteSet(Boards) /\ Boards \cap Symbols = {}
  /\ Requests \subseteq Seq(Symbols)
  /\ BatchSize \in Nat /\ BatchSize > 0
  /\ Attempts \in Nat /\ Attempts > 0
  /\ None \notin Wanted /\ None \notin Answers

Return(a) ==
  /\ answer' = a
  /\ queue' = <<>>
  /\ UNCHANGED <<request, again, attempt, got, content, failures, heard, refused>>

Init ==
  /\ request = None /\ queue = <<>> /\ again = FALSE /\ attempt = 0
  /\ got = {} /\ content = FALSE /\ failures = FALSE /\ answer = None
  /\ asked = [k \in Keys |-> 0] /\ heard = {} /\ refused = {}

Begin ==
  /\ request = None
  /\ \E r \in Wanted :
       /\ request' = r
       /\ queue' = IF CallerError(r) \/ r.service = "local" THEN <<>> ELSE Calls(r)
       /\ answer' = IF CallerError(r) THEN Raised ELSE None
  /\ UNCHANGED <<again, attempt, got, content, failures, asked, heard, refused>>

(***************************************************************************)
(* One call and its outcome                                                *)
(***************************************************************************)

Calling(services) ==
  /\ request # None /\ answer = None /\ queue # <<>>
  /\ request.service \in services

Named(batch) ==
  asked' = [k \in Keys |-> IF k \in ToSet(batch) /\ asked[k] < 2 THEN asked[k] + 1
                            ELSE asked[k]]

\* The call came back readable: its rows join the others, and they may be
\* about any of the codes named.  Rows may also come that tell of none (a
\* table without a code column, a block that mentions nobody).
BatchAnswered ==
  /\ Calling({"westock", "neodata"})
  /\ \E rows \in BOOLEAN, codes \in SUBSET ToSet(Head(queue)) :
       /\ codes # {} => rows
       /\ got' = got \cup codes /\ heard' = heard \cup codes
       /\ content' = (content \/ rows)
  /\ Named(Head(queue))
  /\ queue' = Tail(queue) /\ attempt' = 0
  /\ UNCHANGED <<request, again, failures, answer, refused>>

\* The batch is given up and the next one is tried.  What the command line
\* tool fails to deliver in the top-up pass is not mentioned.
GiveUp ==
  /\ failures' = (failures \/ ~again \/ request.service = "neodata")
  /\ refused' = IF again THEN refused ELSE refused \cup ToSet(Head(queue))
  /\ queue' = Tail(queue) /\ attempt' = 0

\* A timeout, a lost connection, a nonzero exit or an error code: the same
\* call is made again until the attempts are used up.
BatchFailed ==
  /\ Calling({"westock", "neodata"})
  /\ Named(Head(queue))
  /\ IF attempt + 1 < Attempts
     THEN attempt' = attempt + 1 /\ UNCHANGED <<queue, failures, refused>>
     ELSE GiveUp
  /\ UNCHANGED <<request, again, got, content, answer, heard>>

\* An answer that cannot be read: a ragged table, a body that is not a JSON
\* object.  It is not asked for again.
BatchUnreadable ==
  /\ Calling({"westock", "neodata"})
  /\ Named(Head(queue))
  /\ GiveUp
  /\ UNCHANGED <<request, again, got, content, answer, heard>>

\* Without a valid token no call is made, and none is repeated.
TokenRefused ==
  /\ Calling({"neodata"})
  /\ \E files \in TokenFiles : Tokens(files) # "ok"
  /\ GiveUp
  /\ UNCHANGED <<request, again, got, content, answer, asked, heard>>

\* The body breaks off while it is read: http.client's IncompleteRead is no
\* OSError, so it passes through the retry and out of fetch.
BodyCutOff ==
  /\ Calling({"neodata"})
  /\ Named(Head(queue))
  /\ Return(Raised)

(***************************************************************************)
(* After the last batch                                                    *)
(***************************************************************************)

Through == request # None /\ answer = None /\ queue = <<>>

NothingCame ==
  /\ Through /\ Batched(request) /\ ~content
  /\ Return(Emptied(request, IF failures THEN "SOURCE_ERROR" ELSE "NULL"))
  /\ UNCHANGED asked

\* The slip: another pass for as long as a symbol is missing.
TopUp_WhileMissing ==
  /\ Through /\ Batched(request) /\ content
  /\ MissingOf(request, got) # {}
  /\ again' = TRUE
  /\ queue' = MissingCalls(request, got)
  /\ UNCHANGED <<request, attempt, got, content, failures, answer, asked, heard, refused>>

\* One pass more over the symbols no row is about.
TopUp ==
  /\ Through /\ Batched(request) /\ content /\ ~again
  /\ MissingOf(request, got) # {}
  /\ again' = TRUE
  /\ queue' = MissingCalls(request, got)
  /\ UNCHANGED <<request, attempt, got, content, failures, answer, asked, heard, refused>>

\* The slip: the first pass is delivered without a second.
Deliver_NoTopUp ==
  /\ Through /\ Batched(request) /\ content
  /\ Return(Answer("VALUE", got, MissingOf(request, got), failures))
  /\ UNCHANGED asked

Deliver ==
  /\ Through /\ Batched(request) /\ content
  /\ again \/ MissingOf(request, got) = {}
  /\ Return(Answer("VALUE", got, MissingOf(request, got), failures))
  /\ UNCHANGED asked

(***************************************************************************)
(* AkShare: one call per symbol or list, and one failure fails them all    *)
(***************************************************************************)

SymbolAnswered ==
  /\ Calling({"akshare"})
  /\ Named(Head(queue))
  /\ got' = got \cup ToSet(Head(queue)) /\ content' = TRUE
  /\ heard' = heard \cup ToSet(Head(queue))
  /\ queue' = Tail(queue)
  /\ UNCHANGED <<request, again, attempt, failures, answer, refused>>

\* A network error, no rows, or columns that are not those expected.
SymbolFailed ==
  /\ Calling({"akshare"})
  /\ Named(Head(queue))
  /\ Return(Emptied(request, "SOURCE_ERROR"))

PackageAbsent ==
  /\ Calling({"akshare"})
  /\ Return(Raised)
  /\ UNCHANGED asked

AllListed ==
  /\ Through /\ request.service = "akshare"
  /\ Return(Answer("VALUE", got, {}, FALSE))
  /\ UNCHANGED asked

(***************************************************************************)
(* The local file                                                          *)
(***************************************************************************)

\* Absent or undecodable is a source error, a file without a header is
\* empty, and a filter the columns do not support is the caller's error.
ReadFile ==
  /\ Through /\ request.service = "local"
  /\ \E file \in {"absent", "unreadable", "no_header", "no_symbol_column", "table"},
        rows \in SUBSET Symbols :
       LET kept == rows \cap ToSet(request.symbols)
       IN  Return(CASE file \in {"absent", "unreadable"} -> Emptied(request, "SOURCE_ERROR")
                    [] file = "no_header" -> Emptied(request, "NULL")
                    [] file = "no_symbol_column" -> Raised
                    [] OTHER -> Answer(IF kept = {} THEN "NULL" ELSE "VALUE",
                                       kept, {}, FALSE))
  /\ UNCHANGED asked

\* What fetch does by itself, or after calls whose runner or transport carries
\* a timeout.
Timed ==
  \/ BatchAnswered \/ BatchFailed \/ BatchUnreadable \/ TokenRefused \/ BodyCutOff
  \/ NothingCame \/ TopUp \/ Deliver
  \/ AllListed \/ ReadFile

\* AkShare's endpoints take no timeout, and none is passed: a call may never
\* come back.
Untimed == SymbolAnswered \/ SymbolFailed \/ PackageAbsent

Next == Begin \/ Timed \/ Untimed

\* Every call that has a timeout ends; nothing is said of AkShare's.
Fairness == WF_pvars(Timed)

Spec == Init /\ [][Next]_pvars /\ Fairness

-----------------------------------------------------------------------------
TypeOK ==
  /\ request \in Wanted \cup {None}
  /\ queue \in Seq(Seq(Keys))
  /\ again \in BOOLEAN /\ content \in BOOLEAN /\ failures \in BOOLEAN
  /\ attempt \in 0..(Attempts - 1)
  /\ got \subseteq Keys /\ heard \subseteq Keys /\ refused \subseteq Keys
  /\ answer \in Answers \cup {None}
  /\ asked \in [Keys -> 0..2]

\* A fetch that was begun returns, however many calls fail and whatever is
\* still missing after the second pass. AkShare's may hang: the cold start
\* puts it behind fetch_symbols_bounded, `astock sync` just waits.
FetchReturns == (request # None /\ request.service # "akshare") ~> (answer # None)
=============================================================================
