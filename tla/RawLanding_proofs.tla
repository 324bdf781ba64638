-------------------------- MODULE RawLanding_proofs --------------------------
(***************************************************************************)
(* Theorems about the files the commands land: about RawLanding, for all   *)
(* symbols, days and versions; about GapFilling (Gaps), for any universe,  *)
(* any fetch days and any number of rounds, kills included; and about what *)
(* a run as of any day finds in the files of an instrument, whatever lands *)
(* there in whatever order (PointInTime, here Past).                       *)
(***************************************************************************)
EXTENDS RawLanding, BlockFiles, PastFiles, SetLemmas

CONSTANTS BarCells, StatementCells, Periods, Earlier, \* of PointInTime
          ValuationBlocks(_), DividendRows(_)

Gaps == INSTANCE GapFilling

Past == INSTANCE PointInTime

Unique(file) == \A r, s \in file : SameKey(r, s) => r = s

(* What is in the draft, by where the command is. *)
DraftInv ==
  /\ step \in {"truncate listing", "fill listing"} => draft \subseteq Security
  /\ step \in {"truncate bars", "fill bars", "replace"} => draft \subseteq Bar
  /\ Unique(draft)

UniqueInv == Unique(listing) /\ Unique(bars)

(* A sync has a day, and nothing else has one. *)
DayInv == day = Unset <=> step \in {"idle", "replace"}

(* What the draft keeps of the file it is going to replace. *)
KeepInv ==
  /\ step = "truncate listing" =>
       \A r \in listing \ draft : \E s \in draft : s.symbol = r.symbol
  /\ step = "replace" =>
       \A r \in bars \ draft : \E s \in draft : r.symbol = s.symbol /\ r.day = s.day
  /\ step = "bars" => Asked(wanted) \cap Landed(day) = {}
  /\ step = "truncate bars" =>
       /\ \A r \in bars \ draft : \E s \in draft : r.symbol = s.symbol /\ r.day = s.day
       /\ \A r \in bars \cup draft : r.symbol \in Landed(day) => r \in bars \cap draft

LandingInv == TypeOK /\ DraftInv /\ UniqueInv /\ DayInv /\ KeepInv

-----------------------------------------------------------------------------
(* Facts about rows and their merge. *)

(* The symbol is the key of a listed instrument. *)
LEMMA SameListed ==
  ASSUME NEW r \in Security, NEW s
  PROVE  SameKey(r, s) <=> r.symbol = s.symbol
BY DEF SameKey, Security

(* The symbol and the day are the key of a bar. *)
LEMMA SameBar ==
  ASSUME NEW r \in Bar, NEW s
  PROVE  SameKey(r, s) <=> r.symbol = s.symbol /\ r.day = s.day
BY DEF SameKey, Bar

(* Nobody asked for, or everybody once, are wishes. *)
LEMMA SomeWishes ==
  /\ Nothing \in Wishes /\ 1 \in 1 .. MaxNamed
  /\ \A S : named \in Named => Wanted(S) \in Wishes
<1>1. 0 \in 0 .. MaxNamed /\ 1 \in 0 .. MaxNamed /\ 1 \in 1 .. MaxNamed
  BY LandingAssumption
<1>2. Nothing \in Wishes
  BY <1>1 DEF Nothing, Wishes
<1>3. ASSUME NEW S, named \in Named PROVE Wanted(S) \in Wishes
  <2>1. CASE named = Unset
    <3>1. [s \in Instrument |-> IF s \in S THEN 1 ELSE 0] \in Wishes
      BY <1>1 DEF Wishes
    <3> QED BY <2>1, <3>1 DEF Wanted
  <2>2. CASE named # Unset
    BY <1>3, <2>2 DEF Wanted, Named
  <2> QED BY <2>1, <2>2
<1> QED BY <1>1, <1>2, <1>3

(* A listing answers with one row for each symbol. *)
LEMMA ListingAnswer ==
  ASSUME NEW S \in SUBSET Instrument, NEW rows \in Listings(S)
  PROVE  rows \subseteq Security /\ Unique(rows)
<1>1. PICK v \in [S -> Version] : rows = {[symbol |-> s, says |-> v[s]] : s \in S}
  BY DEF Listings
<1>2. rows \subseteq Security
  BY <1>1 DEF Security
<1>3. Unique(rows)
  BY <1>1, <1>2, SameListed DEF Unique
<1> QED BY <1>2, <1>3

(* A history is one row for each of its days. *)
LEMMA BarsOfOne ==
  ASSUME NEW s \in Instrument, NEW said \in History, NEW n \in 1 .. MaxNamed
  PROVE  Bars(s, said, n) \subseteq Bar /\ Unique(Bars(s, said, n))
<1>1. PICK D \in SUBSET TradeDay : said \in [D -> Version]
  BY DEF History
<1>2. ASSUME NEW d \in D
      PROVE  [symbol |-> s, day |-> d, says |-> said[d], times |-> n] \in Bar
  <2>1. d \in TradeDay /\ said[d] \in Version
    BY <1>1
  <2> QED BY <2>1 DEF Bar
<1>3. Bars(s, said, n) \subseteq Bar
  BY <1>1, <1>2 DEF Bars
<1>4. \A r, t \in Bars(s, said, n) : r.day = t.day => r = t
  BY DEF Bars
<1>5. Unique(Bars(s, said, n))
  BY <1>3, <1>4, SameBar DEF Unique
<1> QED BY <1>3, <1>5

(* An answer is one row for each symbol it is asked about, and each of its *)
(* days.                                                                   *)
LEMMA BarsAnswer ==
  ASSUME NEW w \in Wishes, NEW answer \in [Asked(w) -> History]
  PROVE  LET rows == UNION {Bars(s, answer[s], w[s]) : s \in Asked(w)}
         IN  /\ rows \subseteq Bar /\ Unique(rows)
             /\ \A r \in rows : r.symbol \in Asked(w)
<1> DEFINE rows == UNION {Bars(s, answer[s], w[s]) : s \in Asked(w)}
<1>1. ASSUME NEW s \in Asked(w)
      PROVE  s \in Instrument /\ answer[s] \in History /\ w[s] \in 1 .. MaxNamed
  BY LandingAssumption DEF Asked, Wishes
<1>2. ASSUME NEW r \in rows
      PROVE  /\ r.symbol \in Asked(w)
             /\ r \in Bars(r.symbol, answer[r.symbol], w[r.symbol])
  <2>1. PICK s \in Asked(w) : r \in Bars(s, answer[s], w[s])
    OBVIOUS
  <2>2. r.symbol = s
    BY <2>1 DEF Bars
  <2> QED BY <2>1, <2>2
<1> HIDE DEF rows
<1>3. rows \subseteq Bar
  BY <1>1, <1>2, BarsOfOne
<1>4. Unique(rows)
  <2> SUFFICES ASSUME NEW r \in rows, NEW t \in rows, SameKey(r, t) PROVE r = t
    BY DEF Unique
  <2>1. r.symbol = t.symbol
    BY DEF SameKey
  <2>2. Unique(Bars(r.symbol, answer[r.symbol], w[r.symbol]))
    BY <1>1, <1>2, BarsOfOne
  <2> QED BY <1>2, <2>1, <2>2 DEF Unique
<1>5. \A r \in rows : r.symbol \in Asked(w)
  BY <1>2
<1> QED BY <1>3, <1>4, <1>5 DEF rows

(* Merging listings keeps one row per symbol and loses no symbol. *)
LEMMA MergedListing ==
  ASSUME NEW old \in SUBSET Security, NEW new \in SUBSET Security,
         Unique(old), Unique(new)
  PROVE  /\ Merged(old, new) \subseteq Security
         /\ Unique(Merged(old, new))
         /\ \A r \in old \ Merged(old, new) :
              \E s \in Merged(old, new) : s.symbol = r.symbol
<1>1. Merged(old, new) \subseteq Security
  BY DEF Merged
<1>2. Unique(Merged(old, new))
  BY SameListed DEF Merged, Unique
<1>3. ASSUME NEW r \in old \ Merged(old, new)
      PROVE  \E s \in Merged(old, new) : s.symbol = r.symbol
  <2>1. PICK s \in new : SameKey(r, s)
    BY DEF Merged
  <2>2. s \in Merged(old, new) /\ s.symbol = r.symbol
    BY <2>1, SameListed DEF Merged
  <2> QED BY <2>2
<1> QED BY <1>1, <1>2, <1>3

(* Merging bars keeps one row per symbol and day and loses none of them. *)
LEMMA MergedBars ==
  ASSUME NEW old \in SUBSET Bar, NEW new \in SUBSET Bar,
         Unique(old), Unique(new)
  PROVE  /\ Merged(old, new) \subseteq Bar
         /\ Unique(Merged(old, new))
         /\ \A r \in old \ Merged(old, new) :
              \E s \in Merged(old, new) : r.symbol = s.symbol /\ r.day = s.day
<1>1. Merged(old, new) \subseteq Bar
  BY DEF Merged
<1>2. Unique(Merged(old, new))
  BY SameBar DEF Merged, Unique
<1>3. ASSUME NEW r \in old \ Merged(old, new)
      PROVE  \E s \in Merged(old, new) : r.symbol = s.symbol /\ r.day = s.day
  <2>1. PICK s \in new : SameKey(r, s)
    BY DEF Merged
  <2>2. s \in Merged(old, new) /\ r.symbol = s.symbol /\ r.day = s.day
    BY <2>1, SameBar DEF Merged
  <2> QED BY <2>2
<1> QED BY <1>1, <1>2, <1>3

(* A part of a file has one row per key when the file has. *)
LEMMA PartIsUnique ==
  ASSUME NEW file, NEW part \in SUBSET file, Unique(file)
  PROVE  Unique(part)
BY DEF Unique

(* So has a part of some bars, with fewer copies of each. *)
LEMMA PartOfBars ==
  ASSUME NEW file \in SUBSET Bar, Unique(file), NEW part \in Part(file)
  PROVE  part \subseteq Bar /\ Unique(part) /\ Plain(part) \subseteq Plain(file)
<1>1. PICK left \in [file -> 0 .. MaxNamed] :
        part = {[r EXCEPT !.times = left[r]] : r \in {q \in file : left[q] > 0}}
  BY DEF Part
<1>2. ASSUME NEW r \in part
      PROVE  r \in Bar /\ \E q \in file : r = [q EXCEPT !.times = left[q]]
  <2>1. PICK q \in file : r = [q EXCEPT !.times = left[q]] /\ left[q] > 0
    BY <1>1
  <2>2. left[q] \in 1 .. MaxNamed
    BY <1>1, <2>1, LandingAssumption
  <2> QED BY <2>1, <2>2 DEF Bar
<1>3. ASSUME NEW r \in part, NEW t \in part, SameKey(r, t)
      PROVE  r = t
  <2>1. PICK q \in file, p \in file : r = [q EXCEPT !.times = left[q]] /\ t = [p EXCEPT !.times = left[p]]
    BY <1>2
  <2>2. q.symbol = p.symbol /\ q.day = p.day
    BY <1>2, <1>3, <2>1, SameBar DEF Bar
  <2>3. q = p
    BY <2>2, SameBar DEF Unique
  <2> QED BY <2>1, <2>3
<1>4. Plain(part) \subseteq Plain(file)
  BY <1>2 DEF Plain, Bar
<1> QED BY <1>2, <1>3, <1>4 DEF Unique

LEMMA EmptyIsUnique == Unique({})
BY DEF Unique
-----------------------------------------------------------------------------
(* The invariant. *)

LEMMA InitEstablishes == Init => LandingInv
<1> SUFFICES ASSUME Init PROVE LandingInv
  OBVIOUS
<1> USE DEF Init
<1>1. TypeOK
  BY SomeWishes DEF TypeOK, Steps, Named
<1>2. DraftInv /\ UniqueInv
  BY EmptyIsUnique DEF DraftInv, UniqueInv
<1>3. DayInv /\ KeepInv
  BY DEF DayInv, KeepInv
<1> QED BY <1>1, <1>2, <1>3 DEF LandingInv

(* Leaving with the files in order. *)
LEMMA LeaveInOrder ==
  ASSUME Leave, listing' \subseteq Security, bars' \subseteq Bar,
         Unique(listing'), Unique(bars')
  PROVE  LandingInv'
<1> USE DEF Leave
<1>1. TypeOK'
  BY SomeWishes DEF TypeOK, Steps, Named
<1>2. DraftInv' /\ UniqueInv'
  BY EmptyIsUnique DEF DraftInv, UniqueInv
<1>3. DayInv' /\ KeepInv'
  BY DEF DayInv, KeepInv
<1> QED BY <1>1, <1>2, <1>3 DEF LandingInv

LEMMA NextPreserves == LandingInv /\ [Next]_landingVars => LandingInv'
<1> SUFFICES ASSUME LandingInv, [Next]_landingVars PROVE LandingInv'
  OBVIOUS
<1> USE LandingAssumption DEF LandingInv, TypeOK, Steps
<1>1. CASE Sync
  <2>1. TypeOK'
    BY <1>1 DEF Sync
  <2>2. (DraftInv /\ UniqueInv)'
    BY <1>1 DEF Sync, DraftInv, UniqueInv
  <2>3. (DayInv /\ KeepInv)'
    BY <1>1 DEF Sync, DayInv, KeepInv
  <2> QED BY <2>1, <2>2, <2>3
<1>2. CASE ListingFails
  <2>1. TypeOK'
    <3>1. Wanted({}) \in Wishes
      BY SomeWishes
    <3> QED BY <1>2, <3>1 DEF ListingFails, Named
  <2>2. (DraftInv /\ UniqueInv)'
    BY <1>2 DEF ListingFails, DraftInv, UniqueInv
  <2>3. (DayInv /\ KeepInv)'
    BY <1>2 DEF ListingFails, DayInv, KeepInv
  <2> QED BY <2>1, <2>2, <2>3
<1>3. CASE ListingArrives
  <2>1. PICK S \in SUBSET Instrument : \E rows \in Listings(S) :
          draft' = Merged(listing, rows) /\ wanted' = Wanted(S)
    BY <1>3 DEF ListingArrives
  <2>2. PICK rows \in Listings(S) : draft' = Merged(listing, rows)
    BY <2>1
  <2>3. rows \subseteq Security /\ Unique(rows)
    BY ListingAnswer
  <2>4. /\ draft' \subseteq Security /\ Unique(draft')
        /\ \A r \in listing \ draft' : \E s \in draft' : s.symbol = r.symbol
    <3>1. rows \in SUBSET Security /\ listing \in SUBSET Security /\ Unique(listing)
      BY <2>3 DEF UniqueInv
    <3>2. /\ Merged(listing, rows) \subseteq Security /\ Unique(Merged(listing, rows))
          /\ \A r \in listing \ Merged(listing, rows) :
               \E s \in Merged(listing, rows) : s.symbol = r.symbol
      BY <2>3, <3>1, MergedListing
    <3> QED BY <2>2, <3>2
  <2>5. wanted' \in Wishes
    BY <2>1, SomeWishes
  <2>6. TypeOK'
    BY <1>3, <2>4, <2>5 DEF ListingArrives, Named
  <2>7. (DraftInv /\ UniqueInv)'
    BY <1>3, <2>4 DEF ListingArrives, DraftInv, UniqueInv
  <2>8. (DayInv /\ KeepInv)'
    BY <1>3, <2>4 DEF ListingArrives, DayInv, KeepInv
  <2> QED BY <2>6, <2>7, <2>8
<1>4. CASE TruncateListing
  <2>1. TypeOK'
    BY <1>4 DEF TruncateListing
  <2>2. (DraftInv /\ UniqueInv)'
    BY <1>4, EmptyIsUnique DEF TruncateListing, DraftInv, UniqueInv
  <2>3. (DayInv /\ KeepInv)'
    BY <1>4 DEF TruncateListing, DayInv, KeepInv
  <2> QED BY <2>1, <2>2, <2>3
<1>5. CASE FillListing
  <2>1. TypeOK'
    BY <1>5 DEF FillListing, DraftInv
  <2>2. (DraftInv /\ UniqueInv)'
    BY <1>5, EmptyIsUnique DEF FillListing, DraftInv, UniqueInv
  <2>3. (DayInv /\ KeepInv)'
    BY <1>5 DEF FillListing, DayInv, KeepInv
  <2> QED BY <2>1, <2>2, <2>3
<1>6. CASE NothingToAsk
  BY <1>6, LeaveInOrder DEF NothingToAsk, UniqueInv
<1>7. CASE Ask
  <2>1. TypeOK'
    BY <1>7 DEF Ask, Wishes
  <2>2. (DraftInv /\ UniqueInv)'
    BY <1>7 DEF Ask, DraftInv, UniqueInv
  <2>3. DayInv'
    BY <1>7 DEF Ask, DayInv
  <2>4. (Asked(wanted) \cap Landed(day) = {})'
    BY <1>7 DEF Ask, Asked, Landed
  <2>5. KeepInv'
    BY <1>7, <2>4 DEF Ask, KeepInv
  <2> QED BY <2>1, <2>2, <2>3, <2>5
<1>8. CASE BarsFail
  BY <1>8, LeaveInOrder DEF BarsFail, UniqueInv
<1>9. CASE BarsArrive
  <2>1. PICK answer \in [Asked(wanted) -> History] :
          draft' = Merged(bars, UNION {Bars(s, answer[s], wanted[s]) : s \in Asked(wanted)})
    BY <1>9 DEF BarsArrive
  <2> DEFINE rows == UNION {Bars(s, answer[s], wanted[s]) : s \in Asked(wanted)}
  <2>2. draft' = Merged(bars, rows)
    BY <2>1
  <2>3. /\ rows \subseteq Bar /\ Unique(rows)
        /\ \A r \in rows : r.symbol \in Asked(wanted)
    BY BarsAnswer
  <2> HIDE DEF rows
  <2>4. /\ draft' \subseteq Bar /\ Unique(draft')
        /\ \A r \in bars \ draft' : \E s \in draft' : r.symbol = s.symbol /\ r.day = s.day
    <3>1. rows \in SUBSET Bar /\ bars \in SUBSET Bar /\ Unique(bars)
      BY <2>3 DEF UniqueInv
    <3>2. /\ Merged(bars, rows) \subseteq Bar /\ Unique(Merged(bars, rows))
          /\ \A r \in bars \ Merged(bars, rows) :
               \E s \in Merged(bars, rows) : r.symbol = s.symbol /\ r.day = s.day
      BY <2>3, <3>1, MergedBars
    <3> QED BY <2>2, <3>2
  <2>5. \A r \in bars \cup draft' : r.symbol \in Landed(day) => r \in bars \cap draft'
    <3>1. \A r \in rows : r.symbol \notin Landed(day)
      BY <1>9, <2>3 DEF BarsArrive, KeepInv
    <3>2. \A r \in bars, s \in rows : SameKey(r, s) => r.symbol = s.symbol
      BY DEF SameKey
    <3> QED BY <2>2, <3>1, <3>2 DEF Merged
  <2>6. TypeOK'
    BY <1>9, <2>4, SomeWishes DEF BarsArrive
  <2>7. (DraftInv /\ UniqueInv /\ DayInv)'
    BY <1>9, <2>4 DEF BarsArrive, DraftInv, UniqueInv, DayInv
  <2>8. KeepInv'
    <3>1. /\ step' = "truncate bars" /\ bars' = bars /\ day' = day
          /\ Landed(day)' = Landed(day)
      BY <1>9 DEF BarsArrive, Landed
    <3> QED BY <2>4, <2>5, <3>1 DEF KeepInv
  <2> QED BY <2>6, <2>7, <2>8
<1>10. CASE TruncateBars
  <2>1. TypeOK'
    BY <1>10 DEF TruncateBars
  <2>2. (DraftInv /\ UniqueInv)'
    BY <1>10, EmptyIsUnique DEF TruncateBars, DraftInv, UniqueInv
  <2>3. (DayInv /\ KeepInv)'
    BY <1>10 DEF TruncateBars, DayInv, KeepInv
  <2> QED BY <2>1, <2>2, <2>3
<1>11. CASE FillBars
  BY <1>11, LeaveInOrder DEF FillBars, DraftInv, UniqueInv
<1>12. CASE Compact
  <2>1. PICK s \in Instrument, said \in History : draft' = Merged(bars, Bars(s, said, 1))
    BY <1>12 DEF Compact
  <2>2. Bars(s, said, 1) \subseteq Bar /\ Unique(Bars(s, said, 1))
    BY BarsOfOne, SomeWishes
  <2>3. /\ draft' \subseteq Bar /\ Unique(draft')
        /\ \A r \in bars \ draft' : \E t \in draft' : r.symbol = t.symbol /\ r.day = t.day
    <3>1. Bars(s, said, 1) \in SUBSET Bar /\ bars \in SUBSET Bar /\ Unique(bars)
      BY <2>2 DEF UniqueInv
    <3> QED BY <2>1, <2>2, <3>1, MergedBars
  <2>4. TypeOK'
    BY <1>12, <2>3 DEF Compact
  <2>5. (DraftInv /\ UniqueInv /\ DayInv)'
    BY <1>12, <2>3 DEF Compact, DraftInv, UniqueInv, DayInv
  <2>6. KeepInv'
    BY <1>12, <2>3 DEF Compact, KeepInv
  <2> QED BY <2>4, <2>5, <2>6
<1>13. CASE Replace
  BY <1>13, LeaveInOrder DEF Replace, DraftInv, UniqueInv
<1>14. CASE Crash
  <2>1. listing' \subseteq Security /\ Unique(listing')
    BY <1>14, PartIsUnique DEF Crash, DraftInv, UniqueInv
  <2>2. bars' \subseteq Bar /\ Unique(bars')
    BY <1>14, PartOfBars DEF Crash, DraftInv, UniqueInv
  <2> QED BY <1>14, <2>1, <2>2, LeaveInOrder DEF Crash
<1>15. CASE UNCHANGED landingVars
  <2>1. TypeOK' /\ DayInv' /\ DraftInv' /\ UniqueInv'
    BY <1>15 DEF landingVars, DayInv, DraftInv, UniqueInv
  <2>2. KeepInv'
    BY <1>15 DEF landingVars, KeepInv, Landed
  <2> QED BY <2>1, <2>2
<1> QED
  BY <1>1, <1>2, <1>3, <1>4, <1>5, <1>6, <1>7, <1>8, <1>9, <1>10, <1>11, <1>12,
     <1>13, <1>14, <1>15 DEF Next

(* LandingInv is inductive. *)
THEOREM Inductive == Spec => []LandingInv
BY InitEstablishes, NextPreserves, PTL DEF Spec

(* Every state of a landing is well typed, for any market and calendar.    *)
THEOREM TypeCorrect == Spec => []TypeOK
BY Inductive, PTL DEF LandingInv

(* Whatever is landed twice, revised, or cut off by a crash, no file ever  *)
(* says two things of one key (write_merged, write_merged_atomic).         *)
THEOREM KeysSayOneThing == Spec => []OneAnswerPerKey
<1>1. LandingInv => OneAnswerPerKey
  BY DEF LandingInv, UniqueInv, Unique, OneAnswerPerKey
<1> QED BY <1>1, Inductive, PTL

-----------------------------------------------------------------------------
(* The landing implements RawBook. *)

LEMMA InitMaps == Init => Book!Init
BY DEF Init, Book!Init, Plain

(* Rows are as many times in a file as they are: their content is theirs.  *)
LEMMA PlainRows ==
  ASSUME NEW file \in SUBSET Bar, NEW other \in SUBSET Bar, NEW Chosen,
         \A r \in file \ other : \E s \in other : r.symbol = s.symbol /\ r.day = s.day,
         \A r \in file \cup other : r.symbol \in Chosen => r \in file \cap other
  PROVE  /\ Plain(other) \subseteq Book!Bar
         /\ \A r \in Plain(file) \ Plain(other) : \E s \in Plain(other) : Book!Same(r, s)
         /\ Book!Of(Chosen, Plain(other)) = Book!Of(Chosen, Plain(file))
<1> DEFINE plain(r) == [symbol |-> r.symbol, day |-> r.day, says |-> r.says]
<1>1. \A f : Plain(f) = {plain(r) : r \in f}
  BY DEF Plain
<1>2. ASSUME NEW r \in other
      PROVE  plain(r) \in Book!Bar
  <2>1. r.symbol \in Instrument /\ r.day \in Day /\ r.says \in Version
    BY LandingAssumption DEF Bar
  <2> QED BY <2>1 DEF Book!Bar
<1>3. \A r : plain(r).symbol = r.symbol /\ plain(r).day = r.day
  OBVIOUS
<1> HIDE DEF plain
<1>4. Plain(other) \subseteq Book!Bar
  BY <1>1, <1>2
<1>5. ASSUME NEW p \in Plain(file) \ Plain(other)
      PROVE  \E q \in Plain(other) : Book!Same(p, q)
  <2>1. PICK r \in file : p = plain(r) /\ r \notin other
    BY <1>1
  <2>2. PICK s \in other : r.symbol = s.symbol /\ r.day = s.day
    BY <2>1
  <2>3. plain(s) \in Plain(other) /\ Book!Same(p, plain(s))
    BY <1>1, <1>3, <2>1, <2>2 DEF Book!Same
  <2> QED BY <2>3
<1>6. \A p : p \in Book!Of(Chosen, Plain(other)) <=> p \in Book!Of(Chosen, Plain(file))
  <2>1. \A f : \A p : p \in Book!Of(Chosen, Plain(f)) <=> \E r \in f : p = plain(r) /\ r.symbol \in Chosen
    BY <1>1, <1>3 DEF Book!Of
  <2> QED BY <2>1
<1>7. Book!Of(Chosen, Plain(other)) = Book!Of(Chosen, Plain(file))
  BY <1>6 DEF Book!Of
<1> QED BY <1>4, <1>5, <1>7

(* Who has a bar of a day, by the content of the rows. *)
LEMMA PlainLanded ==
  ASSUME NEW d
  PROVE  {r.symbol : r \in {s \in Plain(bars) : s.day = d}} = Landed(d)
<1>1. ASSUME NEW r \in {s \in Plain(bars) : s.day = d} PROVE r.symbol \in Landed(d)
  <2>1. PICK q \in bars : r = [symbol |-> q.symbol, day |-> q.day, says |-> q.says]
    BY DEF Plain
  <2> QED BY <2>1 DEF Landed
<1>2. ASSUME NEW q \in {s \in bars : s.day = d}
      PROVE  \E r \in {s \in Plain(bars) : s.day = d} : r.symbol = q.symbol
  <2> DEFINE r == [symbol |-> q.symbol, day |-> q.day, says |-> q.says]
  <2>1. r \in Plain(bars) /\ r.day = d /\ r.symbol = q.symbol
    BY DEF Plain
  <2> HIDE DEF r
  <2> QED BY <2>1
<1> QED BY <1>1, <1>2 DEF Landed

(* Every step is one of RawBook, or changes nothing of it: a file that was *)
(* truncated is already what it is filled with.                            *)
LEMMA StepMaps ==
  LandingInv /\ [Next]_landingVars =>
    [Book!Next]_<<IF step = "fill listing" THEN draft ELSE listing,
                  IF step = "fill bars" THEN Plain(draft) ELSE Plain(bars), day>>
<1> SUFFICES ASSUME LandingInv, [Next]_landingVars
             PROVE  [Book!Next]_<<IF step = "fill listing" THEN draft ELSE listing,
                                  IF step = "fill bars" THEN Plain(draft) ELSE Plain(bars), day>>
  OBVIOUS
<1> USE LandingAssumption DEF LandingInv, TypeOK
<1>1. CASE Sync
  <2>1. PICK d \in Day : d = day'
    BY <1>1 DEF Sync
  <2>2. Book!Begin(d)
    BY <1>1, <2>1 DEF Sync, Book!Begin, DayInv
  <2> QED BY <2>2 DEF Book!Next
<1>2. CASE ListingFails \/ ListingArrives \/ FillListing \/ Ask \/ BarsArrive \/ Compact
  BY <1>2 DEF ListingFails, ListingArrives, FillListing, Ask, BarsArrive, Compact
<1>3. CASE TruncateListing
  <2>1. Book!Relist
    BY <1>3 DEF TruncateListing, Book!Relist, Book!Listed, Security, DraftInv, DayInv, KeepInv
  <2> QED BY <2>1 DEF Book!Next
<1>4. CASE NothingToAsk \/ BarsFail \/ FillBars
  <2>1. Book!End
    BY <1>4 DEF NothingToAsk, BarsFail, FillBars, Leave, Book!End, DayInv
  <2> QED BY <2>1 DEF Book!Next
<1>5. CASE TruncateBars
  <2>1. /\ Plain(draft) \subseteq Book!Bar
        /\ \A r \in Plain(bars) \ Plain(draft) : \E s \in Plain(draft) : Book!Same(r, s)
        /\ Book!Of(Landed(day), Plain(draft)) = Book!Of(Landed(day), Plain(bars))
    <3>1. /\ draft \in SUBSET Bar /\ bars \in SUBSET Bar
          /\ \A r \in bars \ draft : \E s \in draft : r.symbol = s.symbol /\ r.day = s.day
          /\ \A r \in bars \cup draft : r.symbol \in Landed(day) => r \in bars \cap draft
      BY <1>5 DEF TruncateBars, DraftInv, KeepInv
    <3> QED BY <3>1, PlainRows
  <2>2. /\ step = "truncate bars" /\ step' = "fill bars"
        /\ draft' = draft /\ listing' = listing /\ day' = day
    BY <1>5 DEF TruncateBars
  <2>3. day # Unset
    BY <2>2 DEF DayInv
  <2>4. Plain(draft') = Plain(draft)
    BY <2>2
  <2>5. Book!Add
    BY <2>1, <2>2, <2>3, <2>4, PlainLanded DEF Book!Add
  <2> QED BY <2>5 DEF Book!Next
<1>6. CASE Replace
  <2>1. /\ step = "replace" /\ step' = "idle" /\ day = Unset /\ day' = Unset
        /\ bars' = draft /\ listing' = listing
    BY <1>6 DEF Replace, Leave, DayInv
  <2>2. /\ Plain(draft) \subseteq Book!Bar
        /\ \A r \in Plain(bars) \ Plain(draft) : \E s \in Plain(draft) : Book!Same(r, s)
    <3>1. /\ draft \in SUBSET Bar /\ bars \in SUBSET Bar
          /\ \A r \in bars \ draft : \E s \in draft : r.symbol = s.symbol /\ r.day = s.day
      BY <2>1 DEF DraftInv, KeepInv
    <3> QED BY <3>1, PlainRows
  <2>3. Plain(bars') = Plain(draft)
    BY <2>1
  <2>4. Book!Backfill
    BY <2>1, <2>2, <2>3 DEF Book!Backfill
  <2> QED BY <2>4 DEF Book!Next
<1>7. CASE Crash
  <2>1. CASE step = "replace"
    BY <1>7, <2>1 DEF Crash, Leave, DayInv
  <2>2. CASE step # "replace"
    <3>1. Plain(bars') \subseteq Plain(IF step = "fill bars" THEN draft ELSE bars)
      BY <1>7, PartOfBars DEF Crash, DraftInv
    <3>2. Book!Killed
      BY <1>7, <2>2, <3>1 DEF Crash, Leave, Book!Killed, DayInv
    <3> QED BY <3>2 DEF Book!Next
  <2> QED BY <2>1, <2>2
<1>8. CASE UNCHANGED landingVars
  BY <1>8 DEF landingVars
<1> QED
  BY <1>1, <1>2, <1>3, <1>4, <1>5, <1>6, <1>7, <1>8 DEF Next

(* The landing keeps the promise of RawBook: outside of a killed sync no   *)
(* row is lost but to another version of itself, and a sync leaves alone   *)
(* who has a bar of its day already.                                       *)
THEOREM LandingKeepsPromise == Spec => ImplementsRawBook
BY Inductive, InitMaps, StepMaps, PTL DEF Spec, ImplementsRawBook, Book!Spec

-----------------------------------------------------------------------------
(* The rounds. First the newest file a reader as of a day may see.         *)

(* The parts of the assumption. *)
LEMMA DaysAreNumbers == ASSUME RoundsAssumption PROVE \A d \in FetchDay : d \in Nat
BY DEF RoundsAssumption

LEMMA FilesAreFiles == ASSUME RoundsAssumption PROVE \A S \in SUBSET Instruments : S # Absent
BY DEF RoundsAssumption

(* The rounds read the files as BlockFiles has them.                       *)
LEMMA RoundsReadTheFiles ==
  /\ \A d : Gaps!Content(d) = Content(d)
  /\ \A d : Gaps!Latest(d) = Latest(d)
  /\ Gaps!gapVars = gapVars
BY DEF Gaps!Content, Content, Gaps!Latest, Latest, Gaps!Visible, Visible, Gaps!gapVars, gapVars

(* Of some days none of which is after d, one is the latest: the one that  *)
(* is the fewest days before d.                                            *)
LEMMA LatestDayExists ==
  ASSUME RoundsAssumption, NEW d \in FetchDay, NEW S, S # {}, \A e \in S : e \in FetchDay /\ e <= d
  PROVE  \E e \in S : \A f \in S : f <= e
<1> DEFINE Before == {d - e : e \in S}
<1>1. \A e \in S : e \in Nat /\ d \in Nat /\ d - e \in Nat
  BY DaysAreNumbers
<1>2. Before \subseteq Nat /\ Before # {}
  BY <1>1
<1> HIDE DEF Before
<1>3. PICK m \in Before : \A n \in Before : m <= n
  BY <1>2, MinIsMember
<1>4. \A n \in Before : ~(n < m)
  BY <1>2, <1>3
<1>5. PICK e \in S : m = d - e
  BY DEF Before
<1>6. ASSUME NEW f \in S PROVE f <= e
  <2>1. d - f \in Before
    BY DEF Before
  <2>2. ~(d - f < d - e)
    BY <1>4, <1>5, <2>1
  <2> QED BY <1>1, <2>2
<1> QED BY <1>6

(* The file of a day, where there is one, is the newest as of that day.    *)
LEMMA TodayIsLatest ==
  ASSUME RoundsAssumption, NEW d \in FetchDay, blocks[d] # Absent
  PROVE  Latest(d) = blocks[d]
<1>1. d \in Visible(d) /\ \A f \in Visible(d) : f \in Nat /\ d \in Nat /\ f <= d
  BY DaysAreNumbers DEF Visible
<1>2. \A e \in Visible(d) : (\A f \in Visible(d) : f <= e) => e = d
  BY <1>1
<1>3. (CHOOSE e \in Visible(d) : \A f \in Visible(d) : f <= e) = d
  BY <1>1, <1>2
<1> QED BY <1>1, <1>3 DEF Latest

(* What a reader finds is about symbols of the universe.                   *)
LEMMA CoveredType ==
  ASSUME RoundsAssumption, Gaps!TypeOK, NEW d \in FetchDay
  PROVE  Gaps!Covered(d) \subseteq Instruments
<1> DEFINE newest == CHOOSE e \in Visible(d) : \A f \in Visible(d) : f <= e
<1>1. ASSUME Visible(d) # {} PROVE newest \in Visible(d)
  <2>1. \E e \in Visible(d) : \A f \in Visible(d) : f <= e
    BY <1>1, LatestDayExists DEF Visible
  <2> QED BY <2>1
<1>2. ASSUME NEW e \in Visible(d) PROVE blocks[e] \subseteq Instruments
  BY DEF Visible, Gaps!TypeOK
<1>3. Latest(d) \subseteq Instruments
  BY <1>1, <1>2 DEF Latest
<1>4. Content(d) \subseteq Instruments
  BY DEF Content, Gaps!TypeOK
<1> QED BY <1>3, <1>4, RoundsReadTheFiles DEF Gaps!Covered

(* What the file of a day holds is covered, as the rounds count it.        *)
LEMMA ContentIsCovered ==
  ASSUME RoundsAssumption, NEW d \in FetchDay
  PROVE  Content(d) \subseteq Gaps!Covered(d)
BY TodayIsLatest, RoundsReadTheFiles DEF Content, Gaps!Covered

(* A change to the file of a later day leaves the newest file of an        *)
(* earlier day what it was.                                                *)
LEMMA LaterFileUnseen ==
  ASSUME RoundsAssumption, NEW d \in FetchDay, NEW x \in FetchDay, d < x,
         \A e \in FetchDay : e # x => blocks'[e] = blocks[e]
  PROVE  Latest(d)' = Latest(d)
<1>1. \A e \in FetchDay : e <= d => e # x
  BY DaysAreNumbers
<1>2. Visible(d)' = Visible(d)
  BY <1>1 DEF Visible
<1> DEFINE newest == CHOOSE e \in Visible(d) : \A f \in Visible(d) : f <= e
<1>3. ASSUME Visible(d) # {} PROVE newest \in Visible(d)
  <2>1. \E e \in Visible(d) : \A f \in Visible(d) : f <= e
    BY <1>3, LatestDayExists DEF Visible
  <2> QED BY <2>1
<1>4. Latest(d) = IF Visible(d) = {} THEN {} ELSE blocks[newest]
  BY DEF Latest
<1>5. Latest(d)' = IF Visible(d) = {} THEN {} ELSE blocks'[newest]
  BY <1>2 DEF Latest
<1>6. ASSUME Visible(d) # {} PROVE blocks'[newest] = blocks[newest]
  <2>1. newest \in FetchDay /\ newest <= d
    BY <1>3, <1>6 DEF Visible
  <2> QED BY <1>1, <2>1
<1> QED BY <1>4, <1>5, <1>6

-----------------------------------------------------------------------------
(* The inductive invariant: a command at work has a day, a round asks for  *)
(* nothing its day's file holds, and what is about to be swapped in leaves *)
(* out only what was asked for by name.                                    *)

AtWork == IF where = "idle" THEN round = 0 ELSE fetchDay \in FetchDay

AsksForGaps == where = "fetch" /\ round > 0 => asked \cap Content(fetchDay) = {}

DraftKeeps ==
  where = "replace" => Content(fetchDay) \ filling \subseteq (IF round = 0 THEN asked ELSE {})

GapInv == Gaps!TypeOK /\ AtWork /\ AsksForGaps /\ DraftKeeps

(* What every command leaves behind.                                       *)
LEMMA LeaveRests ==
  ASSUME RoundsAssumption, Gaps!TypeOK, Gaps!Leave, kind' = kind,
         blocks' \in [FetchDay -> (SUBSET Instruments) \cup {Absent}]
  PROVE  GapInv'
BY DEF RoundsAssumption, Gaps!Leave, GapInv, Gaps!TypeOK, AtWork, AsksForGaps, DraftKeeps

(* A command that is done with asking leaves, or counts.                   *)
LEMMA ProceedRests ==
  ASSUME RoundsAssumption, GapInv, where # "idle", Gaps!Proceed, kind' = kind,
         blocks' \in [FetchDay -> (SUBSET Instruments) \cup {Absent}]
  PROVE  GapInv'
<1>1. CASE Gaps!Leave
  BY <1>1, LeaveRests DEF GapInv
<1>2. CASE where' = "count" /\ UNCHANGED <<fetchDay, round, asked, filling, seen, stopped>>
  BY <1>2 DEF GapInv, Gaps!TypeOK, AtWork, AsksForGaps, DraftKeeps
<1> QED BY <1>1, <1>2 DEF Gaps!Proceed

(* GapInv holds initially and is kept by every step. *)
LEMMA GapInvInductive ==
  ASSUME RoundsAssumption
  PROVE  /\ Gaps!Init => GapInv
         /\ GapInv /\ [Gaps!Next]_gapVars => GapInv'
<1>1. ASSUME Gaps!Init PROVE GapInv
  BY <1>1 DEF RoundsAssumption, Gaps!Init, GapInv, Gaps!TypeOK, AtWork, AsksForGaps, DraftKeeps
<1>2. ASSUME GapInv, [Gaps!Next]_gapVars PROVE GapInv'
  <2> USE <1>2
  <2>1. CASE Gaps!SyncGaps
    BY <2>1 DEF RoundsAssumption, Gaps!SyncGaps, GapInv, Gaps!TypeOK, AtWork, AsksForGaps, DraftKeeps
  <2>2. CASE Gaps!SyncNamed
    BY <2>2 DEF Gaps!SyncNamed, GapInv, Gaps!TypeOK, AtWork, AsksForGaps, DraftKeeps
  <2>3. CASE Gaps!Look
    <3>1. fetchDay \in FetchDay
      BY <2>3 DEF Gaps!Look, GapInv, AtWork
    <3>2. asked' \subseteq Instruments /\ asked' \cap Content(fetchDay)' = {}
      BY <2>3, <3>1, ContentIsCovered DEF Gaps!Look, Gaps!Missing, Content
    <3>3. Gaps!Covered(fetchDay) \subseteq Instruments
      BY <3>1, CoveredType DEF GapInv
    <3> QED BY <2>3, <3>1, <3>2, <3>3 DEF Gaps!Look, GapInv, Gaps!TypeOK, AtWork, AsksForGaps, DraftKeeps
  <2>4. CASE Gaps!FetchFails
    BY <2>4, ProceedRests DEF Gaps!FetchFails, GapInv, Gaps!TypeOK
  <2>5. CASE Gaps!FetchArrives
    <3>1. PICK valued \in SUBSET asked, void \in SUBSET asked :
            filling' = (Content(fetchDay) \ void) \cup valued
      BY <2>5, RoundsReadTheFiles DEF Gaps!FetchArrives, Gaps!Merged
    <3>2. fetchDay \in FetchDay /\ Content(fetchDay) \subseteq Instruments
      BY <2>5 DEF Gaps!FetchArrives, GapInv, AtWork, Gaps!TypeOK, Content
    <3>3. Content(fetchDay)' = Content(fetchDay)
      BY <2>5 DEF Gaps!FetchArrives, Content
    <3>4. DraftKeeps'
      BY <2>5, <3>1, <3>3 DEF Gaps!FetchArrives, DraftKeeps, GapInv, AsksForGaps, Gaps!TypeOK
    <3> QED BY <2>5, <3>1, <3>2, <3>4 DEF Gaps!FetchArrives, GapInv, Gaps!TypeOK, AtWork, AsksForGaps
  <2>6. CASE Gaps!Replace
    BY <2>6, ProceedRests DEF Gaps!Replace, GapInv, Gaps!TypeOK, AtWork
  <2>7. CASE Gaps!Count
    <3>1. round' \in 0 .. MaxRounds
      BY <2>7 DEF RoundsAssumption, Gaps!Count, Gaps!MoreRounds, GapInv, Gaps!TypeOK
    <3> QED BY <2>7, <3>1 DEF Gaps!Count, GapInv, Gaps!TypeOK, AtWork, AsksForGaps, DraftKeeps
  <2>8. CASE Gaps!Report \/ Gaps!Crash
    BY <2>8, LeaveRests DEF Gaps!Report, Gaps!Crash, GapInv, Gaps!TypeOK
  <2>9. CASE UNCHANGED gapVars
    BY <2>9 DEF gapVars, GapInv, Gaps!TypeOK, AtWork, AsksForGaps, DraftKeeps, Content
  <2> QED BY <2>1, <2>2, <2>3, <2>4, <2>5, <2>6, <2>7, <2>8, <2>9 DEF Gaps!Next
<1> QED BY <1>1, <1>2

(* Every reachable state of the rounds is well typed: none goes beyond the *)
(* last of --max-rounds.                                                   *)
THEOREM RoundsTypeCorrect == ASSUME RoundsAssumption PROVE Gaps!Spec => []Gaps!TypeOK
<1>1. GapInv => Gaps!TypeOK
  BY DEF GapInv
<1>2. [Gaps!Next]_Gaps!gapVars => [Gaps!Next]_gapVars
  BY DEF Gaps!gapVars, gapVars
<1> QED BY <1>1, <1>2, GapInvInductive, PTL DEF Gaps!Spec

(* What lands keeps its place: whatever rounds, failures, kills and named  *)
(* questions follow one another, content goes only when it was asked for   *)
(* by name, and no reader of an earlier day sees a difference.             *)
THEOREM EveryLandingKeepsItsPlace ==
  ASSUME RoundsAssumption PROVE Gaps!Spec => LandingKeepsItsPlace
<1>1. GapInv /\ [Gaps!Next]_gapVars => [LaterRoundKeeps /\ TodayBlindToTomorrow]_gapVars
  <2> SUFFICES ASSUME GapInv, Gaps!Next PROVE LaterRoundKeeps /\ TodayBlindToTomorrow
    BY DEF gapVars
  <2>1. ASSUME blocks' = blocks PROVE LaterRoundKeeps /\ TodayBlindToTomorrow
    BY <2>1 DEF LaterRoundKeeps, TodayBlindToTomorrow, Content, Latest, Visible
  <2>2. CASE Gaps!Replace
    <3>1. fetchDay \in FetchDay /\ filling \subseteq Instruments
      BY <2>2 DEF Gaps!Replace, GapInv, AtWork, Gaps!TypeOK
    <3>2. blocks' = [e \in FetchDay |-> IF e = fetchDay THEN filling ELSE blocks[e]]
      BY <2>2 DEF Gaps!Replace, GapInv, Gaps!TypeOK
    <3>3. \A d \in FetchDay : Content(d)' = IF d = fetchDay THEN filling ELSE Content(d)
      BY <3>1, <3>2, FilesAreFiles DEF Content
    <3>4. Content(fetchDay) \ filling \subseteq (IF round = 0 THEN asked ELSE {})
      BY <2>2 DEF Gaps!Replace, GapInv, DraftKeeps
    <3>5. LaterRoundKeeps
      BY <3>3, <3>4 DEF LaterRoundKeeps
    <3>6. ASSUME NEW d \in FetchDay, d < fetchDay PROVE Latest(d)' = Latest(d)
      BY <3>1, <3>2, <3>6, LaterFileUnseen
    <3>7. \A d \in FetchDay : d < fetchDay \/ fetchDay <= d
      BY <3>1, DaysAreNumbers
    <3> QED BY <3>5, <3>6, <3>7 DEF TodayBlindToTomorrow
  <2>3. CASE Gaps!Next /\ ~Gaps!Replace
    <3>1. blocks' = blocks
      BY <2>3 DEF Gaps!Next, Gaps!SyncGaps, Gaps!SyncNamed, Gaps!Look, Gaps!FetchFails, Gaps!FetchArrives, Gaps!Count, Gaps!Report, Gaps!Crash
    <3> QED BY <2>1, <3>1
  <2> QED BY <2>2, <2>3
<1>2. [Gaps!Next]_Gaps!gapVars => [Gaps!Next]_gapVars
  BY DEF Gaps!gapVars, gapVars
<1> QED BY <1>1, <1>2, GapInvInductive, PTL DEF Gaps!Spec, LandingKeepsItsPlace

-----------------------------------------------------------------------------
(* What a run finds in the files of an instrument.                         *)

(* A list of the rows at some places of a file, each place once.           *)
Picked(list, file, places) ==
  \E at \in [DOMAIN list -> places] :
    /\ \A i, j \in DOMAIN list : i # j => at[i] # at[j]
    /\ \A p \in places : \E i \in DOMAIN list : at[i] = p
    /\ \A i \in DOMAIN list : list[i] = file[at[i]]

(* Rows kept are picked, and so are rows put in order. *)
LEMMA KeptIsPicked ==
  ASSUME NEW file, NEW places, IsFiniteSet(places), places \subseteq Nat
  PROVE  /\ Cardinality(places) \in Nat
         /\ DOMAIN Kept(file, places) = 1 .. Cardinality(places)
         /\ Picked(Kept(file, places), file, places)
<1>. DEFINE R == {p \in places \X places : p[1] < p[2]}
            at == ByPlace(places, R)
            n == Cardinality(places)
<1>1. \A p, q \in places : <<p, q>> \in R <=> p < q
  OBVIOUS
<1>. HIDE DEF R
<1>2. Precedence(places, R)
  BY <1>1 DEF Precedence
<1>3. n \in Nat /\ ListsInOrder(at, places, R)
  BY <1>2, OrdersAreListed
<1>4. ASSUME NEW k \in 1 .. n
      PROVE  Kept(file, places)[k] = file[at[k]]
  <2>1. \A p \in places : UpTo(places, R, p) = {q \in places : q <= p}
    <3>1. \A p, q \in places : q = p \/ <<q, p>> \in R <=> q <= p
      BY <1>1
    <3>. QED BY <3>1, Zenon DEF UpTo
  <2>2. at[k] = CHOOSE p \in places : Cardinality(UpTo(places, R, p)) = k
    BY DEF ByPlace
  <2>3. Kept(file, places)[k] = file[CHOOSE p \in places : Cardinality({q \in places : q <= p}) = k]
    BY DEF Kept
  <2>. HIDE DEF at
  <2>. QED BY <2>1, <2>2, <2>3
<1>5. DOMAIN Kept(file, places) = 1 .. n
  BY DEF Kept
<1>. HIDE DEF at
<1>6. at \in [1 .. n -> places] /\ IsInjective(at)
  BY <1>3 DEF ListsInOrder, IsInjective
<1>7. \A p \in places : \E i \in 1 .. n : at[i] = p
  BY <1>6, SetsAreListed
<1>8. \A i, j \in 1 .. n : i # j => at[i] # at[j]
  BY <1>3 DEF ListsInOrder
<1>. QED BY <1>3, <1>4, <1>5, <1>6, <1>7, <1>8 DEF Picked

LEMMA OrderedIsPicked ==
  ASSUME NEW n \in Nat, NEW file, DOMAIN file = 1 .. n, NEW column,
         \A i \in 1 .. n : file[i][column] \in Int
  PROVE  /\ DOMAIN Ordered(file, column) = 1 .. n
         /\ Picked(Ordered(file, column), file, 1 .. n)
         /\ \A i, j \in 1 .. n :
              i < j => Ordered(file, column)[i][column] <= Ordered(file, column)[j][column]
<1>. DEFINE S == 1 .. n
            Ahead(j, i) == \/ file[j][column] < file[i][column]
                           \/ file[j][column] = file[i][column] /\ j < i
            R == {p \in S \X S : Ahead(p[1], p[2])}
            at == ByPlace(S, R)
<1>1. IsFiniteSet(S) /\ Cardinality(S) = n
  BY FS_Interval
<1>2. \A i, j \in S : <<i, j>> \in R <=> Ahead(i, j)
  OBVIOUS
<1>. HIDE DEF R
<1>3. Precedence(S, R)
  BY <1>2 DEF Precedence
<1>4. \A i, j \in S : j = i \/ <<j, i>> \in R
                       <=> \/ file[j][column] < file[i][column]
                           \/ file[j][column] = file[i][column] /\ j <= i
  BY <1>2
<1>5. ASSUME NEW k \in S
      PROVE  Ordered(file, column)[k] = file[at[k]]
  <2>. DEFINE NotAfter(j, i) == \/ file[j][column] < file[i][column]
                                \/ file[j][column] = file[i][column] /\ j <= i
  <2>1. \A i \in S : UpTo(S, R, i) = {j \in S : NotAfter(j, i)}
    <3>1. \A i, j \in S : j = i \/ <<j, i>> \in R <=> NotAfter(j, i)
      BY <1>4
    <3>. HIDE DEF S, NotAfter
    <3>. QED BY <3>1, Zenon DEF UpTo
  <2>2. at[k] = CHOOSE i \in S : Cardinality(UpTo(S, R, i)) = k
    BY <1>1 DEF ByPlace
  <2>3. Ordered(file, column)[k] = file[CHOOSE i \in S : Cardinality({j \in S : NotAfter(j, i)}) = k]
    BY DEF Ordered
  <2>. HIDE DEF at, NotAfter, S
  <2>. QED BY <2>1, <2>2, <2>3
<1>6. DOMAIN Ordered(file, column) = 1 .. n
  BY DEF Ordered
<1>. HIDE DEF S
<1>7. ListsInOrder(at, S, R)
  BY <1>1, <1>3, OrdersAreListed
<1>. HIDE DEF at
<1>8. at \in [1 .. n -> S] /\ IsInjective(at) /\ \A i, j \in 1 .. n : i # j => at[i] # at[j]
  BY <1>1, <1>7 DEF ListsInOrder, IsInjective
<1>9. \A i \in S : \E k \in 1 .. n : at[k] = i
  BY <1>1, <1>8, SetsAreListed
<1>10. Picked(Ordered(file, column), file, 1 .. n)
  <2>1. \A k \in 1 .. n : Ordered(file, column)[k] = file[at[k]]
    BY <1>5 DEF S
  <2>2. /\ at \in [1 .. n -> 1 .. n]
        /\ \A i, j \in 1 .. n : i # j => at[i] # at[j]
        /\ \A i \in 1 .. n : \E k \in 1 .. n : at[k] = i
    BY <1>8, <1>9 DEF S
  <2>. DEFINE list == Ordered(file, column)
  <2>. HIDE DEF list
  <2>3. DOMAIN list = 1 .. n
    BY <1>6 DEF list
  <2>4. /\ at \in [DOMAIN list -> 1 .. n]
        /\ \A i, j \in DOMAIN list : i # j => at[i] # at[j]
        /\ \A p \in 1 .. n : \E i \in DOMAIN list : at[i] = p
        /\ \A i \in DOMAIN list : list[i] = file[at[i]]
    BY <2>1, <2>2, <2>3 DEF list
  <2>5. Picked(list, file, 1 .. n)
    BY <2>4, Zenon DEF Picked
  <2>. QED BY <2>5 DEF list
<1>11. ASSUME NEW i \in 1 .. n, NEW j \in 1 .. n, i < j
       PROVE  Ordered(file, column)[i][column] <= Ordered(file, column)[j][column]
  <2>1. at[i] \in S /\ at[j] \in S /\ <<at[i], at[j]>> \in R
    BY <1>1, <1>7, <1>8, <1>11 DEF ListsInOrder
  <2>2. Ahead(at[i], at[j])
    BY <1>2, <2>1
  <2>3. file[at[i]][column] <= file[at[j]][column]
    BY <2>1, <2>2 DEF S
  <2>. QED BY <1>5, <2>3 DEF S
<1>. QED BY <1>6, <1>10, <1>11

(* What counts of a row of bars, and what the quality gate asks of it.     *)
Cleaned(row) ==
  [day |-> row.day, close |-> Number(row.close),
   amount |-> Number(row.amount), volume |-> Number(row.volume)]

Sound(bar) ==
  /\ bar.close # NoValue
  /\ ~(bar.close <= 0)
  /\ ~(bar.volume # NoValue /\ bar.volume < 0)

(* The bars a day may use: sound, and the only ones of their day.          *)
SoleRows(file, d) ==
  {i \in DOMAIN file :
     /\ file[i].day \in Date
     /\ file[i].day <= d
     /\ Sound(Cleaned(file[i]))
     /\ \A j \in DOMAIN file \ {i} : file[j].day # file[i].day}

SoleBars(file, d) == {Cleaned(file[i]) : i \in SoleRows(file, d)}

(* Bars in the order of their days. *)
DayOrder(S) == {p \in S \X S : p[1].day < p[2].day}

(* What is a list of rows. *)
Listed(file) == \E n \in Nat : DOMAIN file = 1 .. n

LEMMA ListsHavePlaces ==
  ASSUME NEW file, Listed(file)
  PROVE  IsFiniteSet(DOMAIN file) /\ DOMAIN file \subseteq Nat
<1>1. PICK n \in Nat : DOMAIN file = 1 .. n
  BY DEF Listed
<1>2. IsFiniteSet(1 .. n) /\ 1 .. n \subseteq Nat
  BY FS_Interval
<1>. QED BY <1>1, <1>2

(* The quality gate leaves one bar a day. *)
LEMMA GateLeavesSoleBars ==
  ASSUME NEW file, Listed(file)
  PROVE  /\ Listed(GatedBars(file))
         /\ \A i \in DOMAIN GatedBars(file) : GatedBars(file)[i].day \in Date
         /\ \A i, j \in DOMAIN GatedBars(file) :
              i # j => GatedBars(file)[i].day # GatedBars(file)[j].day
         /\ \A d \in Date :
              {GatedBars(file)[i] : i \in {j \in DOMAIN GatedBars(file) : GatedBars(file)[j].day <= d}}
                = SoleBars(file, d)
<1>. DEFINE dated == {i \in DOMAIN file : file[i].day \in Date}
            keyed == Kept(file, dated)
            clean == NormalizedBars(file)
            fine == {i \in DOMAIN clean :
                       \A j \in DOMAIN clean : clean[j].day = clean[i].day => ~Flagged(clean, j)}
            gated == Kept(clean, fine)
<1>1. IsFiniteSet(dated) /\ dated \subseteq Nat
  BY ListsHavePlaces, FS_Subset
<1>2. PICK n \in Nat : DOMAIN keyed = 1 .. n
  BY <1>1, KeptIsPicked
<1>2a. Picked(keyed, file, dated)
  BY <1>1, KeptIsPicked
<1>. HIDE DEF keyed
<1>2b. PICK p \in [DOMAIN keyed -> dated] :
        /\ \A i, j \in DOMAIN keyed : i # j => p[i] # p[j]
        /\ \A x \in dated : \E i \in DOMAIN keyed : p[i] = x
        /\ \A i \in DOMAIN keyed : keyed[i] = file[p[i]]
  <2>. HIDE DEF dated
  <2>. QED BY <1>2a, Zenon DEF Picked
<1>3. /\ p \in [1 .. n -> dated]
      /\ \A i, j \in 1 .. n : i # j => p[i] # p[j]
      /\ \A x \in dated : \E i \in 1 .. n : p[i] = x
      /\ \A i \in 1 .. n : keyed[i] = file[p[i]]
  <2>. HIDE DEF dated
  <2>. QED BY <1>2, <1>2b
<1>4. clean = [i \in 1 .. n |-> Cleaned(file[p[i]])]
  BY <1>2, <1>3 DEF NormalizedBars, Cleaned, keyed
<1>. HIDE DEF clean
<1>5. DOMAIN clean = 1 .. n /\ \A i \in 1 .. n : clean[i] = Cleaned(file[p[i]])
  BY <1>4
<1>6. \A i \in 1 .. n : clean[i].day = file[p[i]].day
  BY <1>5 DEF Cleaned
<1>7. fine = {i \in 1 .. n : Sound(clean[i]) /\ \A j \in (1 .. n) \ {i} : clean[j].day # clean[i].day}
  BY <1>5 DEF Flagged, Sound
<1>8. IsFiniteSet(fine) /\ fine \subseteq Nat /\ fine \subseteq 1 .. n
  <2>1. fine \subseteq 1 .. n
    BY <1>7
  <2>. HIDE DEF fine
  <2>2. IsFiniteSet(1 .. n) /\ 1 .. n \subseteq Nat
    BY FS_Interval
  <2>3. IsFiniteSet(fine)
    BY <2>1, <2>2, FS_Subset
  <2>. QED BY <2>1, <2>2, <2>3
<1>. HIDE DEF fine
<1>9. PICK m \in Nat : DOMAIN gated = 1 .. m
  BY <1>8, KeptIsPicked
<1>9a. Picked(gated, clean, fine)
  BY <1>8, KeptIsPicked
<1>. HIDE DEF gated
<1>9b. PICK q \in [DOMAIN gated -> fine] :
         /\ \A i, j \in DOMAIN gated : i # j => q[i] # q[j]
         /\ \A x \in fine : \E i \in DOMAIN gated : q[i] = x
         /\ \A i \in DOMAIN gated : gated[i] = clean[q[i]]
  BY <1>9a, Zenon DEF Picked
<1>10. /\ q \in [1 .. m -> fine]
       /\ \A i, j \in 1 .. m : i # j => q[i] # q[j]
       /\ \A x \in fine : \E i \in 1 .. m : q[i] = x
       /\ \A i \in 1 .. m : gated[i] = clean[q[i]]
  BY <1>9, <1>9b
<1>11. GatedBars(file) = gated
  BY DEF GatedBars, ValidBars, clean, fine, gated
<1>12. \A i \in 1 .. m : q[i] \in 1 .. n /\ gated[i].day = file[p[q[i]]].day /\ p[q[i]] \in dated
  BY <1>3, <1>6, <1>8, <1>10
<1>13. \A i, j \in 1 .. m : i # j => gated[i].day # gated[j].day
  <2>. SUFFICES ASSUME NEW i \in 1 .. m, NEW j \in 1 .. m, i # j
                PROVE  gated[i].day # gated[j].day
    OBVIOUS
  <2>1. q[i] \in fine /\ q[j] \in (1 .. n) \ {q[i]}
    BY <1>8, <1>10
  <2>2. \A k \in fine : \A l \in (1 .. n) \ {k} : clean[l].day # clean[k].day
    BY <1>7
  <2>3. clean[q[j]].day # clean[q[i]].day
    BY <2>1, <2>2
  <2>4. gated[i] = clean[q[i]] /\ gated[j] = clean[q[j]]
    BY <1>10
  <2>. QED BY <2>3, <2>4
<1>14. ASSUME NEW d \in Date
       PROVE  {gated[i] : i \in {j \in 1 .. m : gated[j].day <= d}} = SoleBars(file, d)
  <2>1. ASSUME NEW i \in 1 .. m, gated[i].day <= d
        PROVE  gated[i] \in SoleBars(file, d)
    <3>. DEFINE place == p[q[i]]
    <3>1. place \in dated /\ gated[i] = Cleaned(file[place]) /\ file[place].day <= d
      BY <1>5, <1>10, <1>12, <2>1
    <3>2. Sound(Cleaned(file[place]))
      BY <1>5, <1>7, <1>10, <1>12
    <3>3. ASSUME NEW j \in DOMAIN file \ {place} PROVE file[j].day # file[place].day
      <4>. SUFFICES ASSUME file[j].day = file[place].day PROVE FALSE
        OBVIOUS
      <4>1. j \in dated
        BY <3>1
      <4>2. PICK k \in 1 .. n : p[k] = j
        BY <1>3, <4>1
      <4>3. k # q[i] /\ clean[k].day = clean[q[i]].day
        BY <1>6, <1>12, <4>2
      <4>. QED BY <1>7, <1>10, <4>3
    <3>4. place \in SoleRows(file, d)
      BY <3>1, <3>2, <3>3 DEF SoleRows
    <3>. QED BY <3>1, <3>4 DEF SoleBars
  <2>2. ASSUME NEW place \in SoleRows(file, d)
        PROVE  \E i \in 1 .. m : gated[i].day <= d /\ gated[i] = Cleaned(file[place])
    <3>1. place \in dated
      BY DEF SoleRows
    <3>2. PICK k \in 1 .. n : p[k] = place
      BY <1>3, <3>1
    <3>3. \A j \in (1 .. n) \ {k} : clean[j].day # clean[k].day
      <4>. SUFFICES ASSUME NEW j \in (1 .. n) \ {k} PROVE clean[j].day # clean[k].day
        OBVIOUS
      <4>1. p[j] \in DOMAIN file \ {place}
        BY <1>3, <3>2
      <4>. QED BY <1>6, <3>2, <4>1 DEF SoleRows
    <3>4. k \in fine
      BY <1>5, <1>7, <3>2, <3>3 DEF SoleRows
    <3>5. PICK i \in 1 .. m : q[i] = k
      BY <1>10, <3>4
    <3>. QED BY <1>5, <1>10, <1>12, <3>2, <3>5 DEF SoleRows
  <2>. QED BY <2>1, <2>2 DEF SoleBars
<1>15. \A i \in 1 .. m : gated[i].day \in Date
  BY <1>12
<1>. QED BY <1>9, <1>11, <1>13, <1>14, <1>15 DEF Listed

(* The bars a trailing factor may use are the sole bars of the past, in    *)
(* the order of their days.                                                *)
LEMMA UsableBarsAreSole ==
  ASSUME NEW file, Listed(file), NEW d \in Date
  PROVE  /\ IsFiniteSet(SoleBars(file, d))
         /\ Precedence(SoleBars(file, d), DayOrder(SoleBars(file, d)))
         /\ ListsInOrder(UsableBars(GatedBars(file), d), SoleBars(file, d), DayOrder(SoleBars(file, d)))
<1>. DEFINE gated == GatedBars(file)
            past == {i \in DOMAIN gated : gated[i].day <= d}
            kept == Kept(gated, past)
            list == Ordered(kept, "day")
            T == SoleBars(file, d)
            k == Cardinality(past)
<1>1. /\ Listed(gated)
      /\ \A i \in DOMAIN gated : gated[i].day \in Date
      /\ \A i, j \in DOMAIN gated : i # j => gated[i].day # gated[j].day
      /\ {gated[i] : i \in past} = T
  BY GateLeavesSoleBars
<1>. HIDE DEF gated, T
<1>2. IsFiniteSet(past) /\ past \subseteq Nat /\ past \subseteq DOMAIN gated
  BY <1>1, ListsHavePlaces, FS_Subset
<1>3. UsableBars(GatedBars(file), d) = list
  BY DEF UsableBars, gated
<1>. HIDE DEF past
<1>4. k \in Nat /\ DOMAIN kept = 1 .. k /\ Picked(kept, gated, past)
  BY <1>2, KeptIsPicked
<1>. HIDE DEF kept, k
<1>5. PICK a \in [DOMAIN kept -> past] :
        /\ \A i, j \in DOMAIN kept : i # j => a[i] # a[j]
        /\ \A p \in past : \E i \in DOMAIN kept : a[i] = p
        /\ \A i \in DOMAIN kept : kept[i] = gated[a[i]]
  BY <1>4, Zenon DEF Picked
<1>6. \A i \in 1 .. k : kept[i].day \in Int
  <2>1. \A i \in 1 .. k : a[i] \in DOMAIN gated /\ kept[i] = gated[a[i]]
    BY <1>2, <1>4, <1>5
  <2>. QED BY <1>1, <2>1, DateAssumption
<1>7. /\ DOMAIN list = 1 .. k /\ Picked(list, kept, 1 .. k)
      /\ \A i, j \in 1 .. k : i < j => list[i].day <= list[j].day
  BY <1>4, <1>6, OrderedIsPicked
<1>. HIDE DEF list
<1>8. PICK b \in [DOMAIN list -> 1 .. k] :
        /\ \A i, j \in DOMAIN list : i # j => b[i] # b[j]
        /\ \A p \in 1 .. k : \E i \in DOMAIN list : b[i] = p
        /\ \A i \in DOMAIN list : list[i] = kept[b[i]]
  BY <1>7, Zenon DEF Picked
<1>9. \A i \in 1 .. k : /\ b[i] \in 1 .. k /\ a[b[i]] \in past /\ a[b[i]] \in DOMAIN gated
                       /\ list[i] = gated[a[b[i]]]
  BY <1>2, <1>4, <1>5, <1>7, <1>8
<1>10. \A i \in 1 .. k : list[i] \in T /\ list[i].day \in Date
  <2>1. \A p \in past : gated[p] \in T
    BY <1>1
  <2>. QED BY <1>1, <1>9, <2>1
<1>11. \A i, j \in 1 .. k : i # j => list[i].day # list[j].day
  <2>. SUFFICES ASSUME NEW i \in 1 .. k, NEW j \in 1 .. k, i # j
                PROVE  list[i].day # list[j].day
    OBVIOUS
  <2>1. b[i] # b[j] /\ b[i] \in DOMAIN kept /\ b[j] \in DOMAIN kept
    BY <1>4, <1>7, <1>8
  <2>2. a[b[i]] # a[b[j]]
    BY <1>5, <2>1
  <2>. QED BY <1>1, <1>9, <2>2
<1>12. \A x \in T : \E i \in 1 .. k : list[i] = x
  <2>. SUFFICES ASSUME NEW x \in T PROVE \E i \in 1 .. k : list[i] = x
    OBVIOUS
  <2>1. PICK p \in past : gated[p] = x
    BY <1>1
  <2>2. PICK l \in 1 .. k : a[l] = p
    BY <1>4, <1>5
  <2>3. PICK i \in 1 .. k : b[i] = l
    BY <1>7, <1>8
  <2>. QED BY <1>9, <2>1, <2>2, <2>3
<1>13. list = [i \in 1 .. k |-> list[i]]
  BY <1>7 DEF list, Ordered
<1>14. list \in [1 .. k -> T]
  BY <1>10, <1>13
<1>15. IsFiniteSet(T) /\ Cardinality(T) = k
  <2>1. list \in Bijection(1 .. k, T)
    <3>1. \A i, j \in 1 .. k : list[i] = list[j] => i = j
      BY <1>11
    <3>. QED BY <1>12, <1>14, <3>1 DEF Bijection, Injection, Surjection, IsInjective
  <2>2. ExistsBijection(1 .. k, T)
    BY <2>1 DEF ExistsBijection
  <2>3. IsFiniteSet(1 .. k) /\ Cardinality(1 .. k) = k
    BY <1>4, FS_Interval
  <2>. QED BY <2>2, <2>3, FS_Bijection
<1>16. \A x \in T : x.day \in Int
  BY <1>10, <1>12, DateAssumption
<1>17. \A x, y \in T : x # y => x.day # y.day
  BY <1>11, <1>12
<1>18. Precedence(T, DayOrder(T))
  BY <1>16, <1>17 DEF Precedence, DayOrder
<1>19. \A i, j \in 1 .. k : i < j => <<list[i], list[j]>> \in DayOrder(T)
  <2>. SUFFICES ASSUME NEW i \in 1 .. k, NEW j \in 1 .. k, i < j
                PROVE  <<list[i], list[j]>> \in DayOrder(T)
    OBVIOUS
  <2>1. list[i].day < list[j].day
    BY <1>4, <1>7, <1>10, <1>11, <1>16
  <2>. QED BY <1>10, <2>1 DEF DayOrder
<1>20. ListsInOrder(list, T, DayOrder(T))
  <2>1. \A i, j \in 1 .. k : i # j => list[i] # list[j]
    BY <1>11
  <2>. QED BY <1>14, <1>15, <1>19, <2>1 DEF ListsInOrder
<1>. QED BY <1>3, <1>15, <1>18, <1>20 DEF T

(* What is left out of a file of bars that is about later days only leaves *)
(* the usable bars as they are, and so does any order of the rest.         *)
LEMMA PickedBarsAreSole ==
  ASSUME NEW file, Listed(file), NEW other, Listed(other), NEW d \in Date, NEW places,
         places \subseteq DOMAIN file, Picked(other, file, places),
         \A i \in DOMAIN file : file[i].day \in Date /\ file[i].day <= d => i \in places
  PROVE  UsableBars(GatedBars(other), d) = UsableBars(GatedBars(file), d)
<1>1. PICK a \in [DOMAIN other -> places] :
        /\ \A i, j \in DOMAIN other : i # j => a[i] # a[j]
        /\ \A p \in places : \E i \in DOMAIN other : a[i] = p
        /\ \A i \in DOMAIN other : other[i] = file[a[i]]
  BY Zenon DEF Picked
<1>2. ASSUME NEW i \in SoleRows(other, d)
      PROVE  Cleaned(other[i]) \in SoleBars(file, d)
  <2>1. /\ i \in DOMAIN other /\ other[i] = file[a[i]] /\ a[i] \in DOMAIN file
        /\ other[i].day \in Date /\ other[i].day <= d /\ Sound(Cleaned(other[i]))
        /\ \A j \in DOMAIN other \ {i} : other[j].day # other[i].day
    BY <1>1 DEF SoleRows
  <2>2. ASSUME NEW j \in DOMAIN file \ {a[i]}, file[j].day = file[a[i]].day
        PROVE  FALSE
    <3>1. j \in places
      BY <2>1, <2>2
    <3>2. PICK l \in DOMAIN other : a[l] = j
      BY <1>1, <3>1
    <3>. QED BY <1>1, <2>1, <2>2, <3>2
  <2>3. a[i] \in SoleRows(file, d)
    BY <2>1, <2>2 DEF SoleRows
  <2>. QED BY <2>1, <2>3 DEF SoleBars
<1>3. ASSUME NEW p \in SoleRows(file, d)
      PROVE  Cleaned(file[p]) \in SoleBars(other, d)
  <2>1. /\ p \in DOMAIN file /\ p \in places
        /\ file[p].day \in Date /\ file[p].day <= d /\ Sound(Cleaned(file[p]))
        /\ \A j \in DOMAIN file \ {p} : file[j].day # file[p].day
    BY DEF SoleRows
  <2>2. PICK i \in DOMAIN other : a[i] = p
    BY <1>1, <2>1
  <2>3. \A j \in DOMAIN other \ {i} : a[j] \in DOMAIN file \ {p} /\ other[j] = file[a[j]]
    BY <1>1, <2>2
  <2>4. other[i] = file[p]
    BY <1>1, <2>2
  <2>5. i \in SoleRows(other, d)
    BY <2>1, <2>2, <2>3, <2>4 DEF SoleRows
  <2>. QED BY <2>4, <2>5 DEF SoleBars
<1>4. SoleBars(other, d) = SoleBars(file, d)
  <2>1. SoleBars(other, d) \subseteq SoleBars(file, d)
    BY <1>2 DEF SoleBars
  <2>2. SoleBars(file, d) \subseteq SoleBars(other, d)
    BY <1>3 DEF SoleBars
  <2>. QED BY <2>1, <2>2
<1>. QED BY <1>4, UsableBarsAreSole, ListsAreUnique

(* What two rows of a statement file leave of a period is told by the rows *)
(* that are out already, in whatever order.                                *)
LEMMA PickedStatements ==
  ASSUME NEW file, NEW other, NEW d \in Date, NEW places,
         places \subseteq DOMAIN file, Picked(other, file, places),
         \A i \in DOMAIN file : Dated(file[i]) /\ file[i].announced <= d => i \in places
  PROVE  UsableObservations(other, d) = UsableObservations(file, d)
<1>. DEFINE Known(rows) == {i \in DOMAIN rows : Dated(rows[i]) /\ rows[i].announced <= d}
            alone(rows) == {i \in Known(rows) : \A j \in Known(rows) \ {i} : rows[j].period # rows[i].period}
            said(rows) == {rows[i] : i \in alone(rows)}
<1>1. PICK a \in [DOMAIN other -> places] :
        /\ \A i, j \in DOMAIN other : i # j => a[i] # a[j]
        /\ \A p \in places : \E i \in DOMAIN other : a[i] = p
        /\ \A i \in DOMAIN other : other[i] = file[a[i]]
  BY Zenon DEF Picked
<1>2. \A i \in Known(other) : a[i] \in Known(file) /\ other[i] = file[a[i]]
  BY <1>1
<1>3. \A p \in Known(file) : \E i \in Known(other) : a[i] = p
  <2>. SUFFICES ASSUME NEW p \in Known(file) PROVE \E i \in Known(other) : a[i] = p
    OBVIOUS
  <2>1. PICK i \in DOMAIN other : a[i] = p
    BY <1>1
  <2>. QED BY <1>1, <2>1
<1>4. \A i, j \in Known(other) : i # j => a[i] # a[j]
  BY <1>1
<1>. HIDE DEF Known
<1>5. \A i \in alone(other) : a[i] \in alone(file)
  <2>. SUFFICES ASSUME NEW i \in alone(other), NEW q \in Known(file) \ {a[i]}
                PROVE  file[q].period # file[a[i]].period
    BY <1>2
  <2>1. PICK j \in Known(other) : a[j] = q
    BY <1>3
  <2>. QED BY <1>2, <2>1
<1>6. \A p \in alone(file) : \E i \in alone(other) : a[i] = p
  <2>. SUFFICES ASSUME NEW p \in alone(file) PROVE \E i \in alone(other) : a[i] = p
    OBVIOUS
  <2>1. PICK i \in Known(other) : a[i] = p
    BY <1>3
  <2>2. \A j \in Known(other) \ {i} : other[j].period # other[i].period
    BY <1>2, <1>4, <2>1
  <2>. QED BY <2>1, <2>2
<1>7. said(other) = said(file)
  <2>1. \A i \in alone(other) : other[i] = file[a[i]]
    BY <1>2
  <2>. HIDE DEF alone
  <2>2. ASSUME NEW i \in alone(other) PROVE other[i] \in said(file)
    BY <1>5, <2>1
  <2>3. ASSUME NEW p \in alone(file) PROVE file[p] \in said(other)
    <3>1. PICK i \in alone(other) : a[i] = p
      BY <1>6
    <3>. QED BY <2>1, <3>1
  <2>. QED BY <2>2, <2>3
<1>8. \A rows : UsableObservations(rows, d) = UNION {Stated(row) : row \in said(rows)}
  <2>. SUFFICES ASSUME NEW rows
                PROVE  UsableObservations(rows, d) = UNION {Stated(row) : row \in said(rows)}
    OBVIOUS
  <2>1. UsableObservations(rows, d) = UNION {Stated(rows[i]) : i \in alone(rows)}
    BY DEF UsableObservations, Known
  <2>. HIDE DEF alone
  <2>2. {Stated(rows[i]) : i \in alone(rows)} = {Stated(row) : row \in said(rows)}
    OBVIOUS
  <2>. QED BY <2>1, <2>2
<1>. HIDE DEF said
<1>. QED BY <1>7, <1>8

(* Of files by day the latest one counts, and what is read from it.        *)
LEMMA LatestFileIsOfThePast ==
  ASSUME NEW files, NEW d \in Date
  PROVE  LET cut == [f \in Date |-> IF f <= d THEN files[f] ELSE NoValue]
         IN  /\ ValuationObservations(cut, d) = ValuationObservations(files, d)
             /\ DividendEvents(cut, d) = DividendEvents(files, d)
<1>. DEFINE cut == [f \in Date |-> IF f <= d THEN files[f] ELSE NoValue]
            visible(of) == {f \in Date : of[f] # NoValue /\ f <= d}
            newest(v) == IF v = {} THEN NoValue ELSE CHOOSE f \in v : \A g \in v : g <= f
            last == LatestFile(files, d)
<1>1. visible(cut) = visible(files)
  OBVIOUS
<1>2. LatestFile(cut, d) = last /\ last = newest(visible(files))
  <2>. HIDE DEF cut
  <2>1. \A of : LatestFile(of, d) = newest(visible(of))
    BY DEF LatestFile
  <2>. HIDE DEF visible, newest
  <2>. QED BY <1>1, <2>1
<1>3. CASE last = NoValue
  BY <1>2, <1>3 DEF ValuationObservations, DividendEvents
<1>4. CASE last # NoValue
  <2>1. visible(files) # {}
    BY <1>2, <1>4
  <2>2. visible(files) \subseteq 1 .. d /\ d \in Nat
    BY DateAssumption
  <2>. HIDE DEF visible
  <2>3. IsFiniteSet(visible(files)) /\ visible(files) \subseteq Int
    BY <2>2, FS_Interval, FS_Subset
  <2>4. \E f \in visible(files) : \A g \in visible(files) : g <= f
    <3>1. Max(visible(files)) \in visible(files) /\ \A y \in visible(files) : Max(visible(files)) >= y
      BY <2>1, <2>3, MaxIsMember
    <3>. QED BY <2>3, <3>1
  <2>5. last \in visible(files)
    BY <1>2, <2>1, <2>4
  <2>6. cut[last] = files[last]
    <3>. HIDE DEF last
    <3>. QED BY <2>5 DEF visible
  <2>. HIDE DEF cut
  <2>7. ValuationObservations(cut, d) = ValuationObservations(files, d)
    BY <1>2, <2>6 DEF ValuationObservations
  <2>8. DividendEvents(cut, d) = DividendEvents(files, d)
    BY <1>2, <2>6 DEF DividendEvents
  <2>. QED BY <2>7, <2>8 DEF cut
<1>. QED BY <1>3, <1>4

(* A factor depends on the bars by those it may use only.                  *)
LEMMA FactorsOfUsableBars ==
  ASSUME NEW a, NEW b, NEW events, NEW d, UsableBars(a, d) = UsableBars(b, d)
  PROVE  /\ AverageAmount(a, d) = AverageAmount(b, d)
         /\ TrailingReturn(a, d) = TrailingReturn(b, d)
         /\ ProximityToHigh(a, d) = ProximityToHigh(b, d)
         /\ DividendYieldTTM(events, a, d) = DividendYieldTTM(events, b, d)
<1>1. \A size : Trailing(a, d, size) = Trailing(b, d, size)
  BY DEF Trailing
<1>2. AverageAmount(a, d) = AverageAmount(b, d)
  BY <1>1 DEF AverageAmount
<1>3. TrailingReturn(a, d) = TrailingReturn(b, d)
  BY <1>1 DEF TrailingReturn
<1>4. ProximityToHigh(a, d) = ProximityToHigh(b, d)
  <2>. DEFINE near(w) ==
         IF w = NoValue \/ \E i \in 1 .. Window : w[i].close = NoValue
         THEN Missing("NULL")
         ELSE LET closes == {w[i].close : i \in 1 .. Window}
                  peak == CHOOSE c \in closes : \A e \in closes : e <= c
              IN  IF peak <= 0 THEN Missing("NULL")
                  ELSE Value(Percent(w[Window].close, peak))
  <2>1. \A x : ProximityToHigh(x, d) = near(Trailing(x, d, Window))
    BY DEF ProximityToHigh
  <2>. HIDE DEF near
  <2>. QED BY <1>1, <2>1
<1>5. DividendYieldTTM(events, a, d) = DividendYieldTTM(events, b, d)
  BY DEF DividendYieldTTM
<1>. QED BY <1>2, <1>3, <1>4, <1>5

(* A run of a day sees of the files its usable bars, the usable statements *)
(* and the latest of the files by day, and nothing else.                   *)
LEMMA FactorsOfRecords ==
  ASSUME NEW one, NEW two, NEW d,
         UsableBars(GatedBars(one.bars), d) = UsableBars(GatedBars(two.bars), d),
         UsableObservations(one.statements, d) = UsableObservations(two.statements, d),
         ValuationObservations(one.valuations, d) = ValuationObservations(two.valuations, d),
         DividendEvents(one.dividends, d) = DividendEvents(two.dividends, d)
  PROVE  FactorsAsOf(one, d) = FactorsAsOf(two, d)
<1>. DEFINE a == GatedBars(one.bars)
            b == GatedBars(two.bars)
            events == DividendEvents(two.dividends, d)
<1>1. /\ AverageAmount(a, d) = AverageAmount(b, d)
      /\ TrailingReturn(a, d) = TrailingReturn(b, d)
      /\ ProximityToHigh(a, d) = ProximityToHigh(b, d)
      /\ DividendYieldTTM(events, a, d) = DividendYieldTTM(events, b, d)
  <2>1. UsableBars(a, d) = UsableBars(b, d)
    OBVIOUS
  <2>. HIDE DEF a, b, events
  <2>. QED BY <2>1, FactorsOfUsableBars
<1>. QED BY <1>1 DEF FactorsAsOf

-----------------------------------------------------------------------------
(* The files as landings leave them. *)

(* Files are lists of rows, and a period has one statement. *)
PastInv ==
  /\ history \in Seq(Rows(history))
  /\ statements \in Seq(Rows(statements))
  /\ \A i \in DOMAIN statements : statements[i].period \in Nat
  /\ \A i, j \in DOMAIN statements : statements[i].period = statements[j].period => i = j

(* Both files are lists of rows. *)
LEMMA FilesAreListed ==
  ASSUME PastInv
  PROVE  Listed(history) /\ Listed(statements)
<1>1. /\ Len(history) \in Nat /\ DOMAIN history = 1 .. Len(history)
      /\ Len(statements) \in Nat /\ DOMAIN statements = 1 .. Len(statements)
  BY DEF PastInv
<1>. QED BY <1>1 DEF Listed

(* A file in the order of its days has the rows it had.                    *)
LEMMA OrderNeverMatters ==
  ASSUME PastInv
  PROVE  OrderIsForgotten
<1>. DEFINE places == {i \in DOMAIN history : history[i].day \in Date}
            dated == Kept(history, places)
            byDay == Ordered(dated, "day")
            byPeriod == Ordered(statements, "period")
            sorted == [Files EXCEPT !.bars = byDay, !.statements = byPeriod]
<1>. SUFFICES ASSUME NEW d \in Date
              PROVE  FactorsAsOf(Files, d) = FactorsAsOf(sorted, d)
  BY DEF OrderIsForgotten
<1>1. UsableBars(GatedBars(byDay), d) = UsableBars(GatedBars(history), d)
  <2>1. IsFiniteSet(places) /\ places \subseteq Nat /\ places \subseteq DOMAIN history
    BY FilesAreListed, ListsHavePlaces, FS_Subset
  <2>2. \A i \in places : history[i].day \in Date
    OBVIOUS
  <2>3. \A i \in DOMAIN history : history[i].day \in Date /\ history[i].day <= d => i \in places
    OBVIOUS
  <2>. HIDE DEF places
  <2>4. PICK n \in Nat : DOMAIN dated = 1 .. n
    BY <2>1, KeptIsPicked
  <2>5. Picked(dated, history, places)
    BY <2>1, KeptIsPicked
  <2>. HIDE DEF dated
  <2>6. \A i \in 1 .. n : dated[i].day \in Int
    <3>1. PICK a \in [DOMAIN dated -> places] : \A i \in DOMAIN dated : dated[i] = history[a[i]]
      BY <2>5, Zenon DEF Picked
    <3>. QED BY <2>2, <2>4, <3>1, DateAssumption
  <2>7. /\ DOMAIN byDay = 1 .. n
        /\ Picked(byDay, dated, 1 .. n)
    BY <2>4, <2>6, OrderedIsPicked
  <2>. HIDE DEF byDay
  <2>8. Listed(dated) /\ Listed(byDay)
    BY <2>4, <2>7 DEF Listed
  <2>9. UsableBars(GatedBars(dated), d) = UsableBars(GatedBars(history), d)
    BY <2>1, <2>3, <2>5, <2>8, FilesAreListed, PickedBarsAreSole
  <2>10. UsableBars(GatedBars(byDay), d) = UsableBars(GatedBars(dated), d)
    BY <2>4, <2>7, <2>8, PickedBarsAreSole
  <2>. QED BY <2>9, <2>10
<1>2. UsableObservations(byPeriod, d) = UsableObservations(statements, d)
  <2>1. PICK n \in Nat : DOMAIN statements = 1 .. n
    BY FilesAreListed DEF Listed
  <2>2. Picked(byPeriod, statements, 1 .. n)
    BY <2>1, OrderedIsPicked DEF PastInv
  <2>. HIDE DEF byPeriod
  <2>. QED BY <2>1, <2>2, PickedStatements
<1>. HIDE DEF byDay, byPeriod
<1>3. /\ sorted.bars = byDay /\ sorted.statements = byPeriod
      /\ sorted.valuations = Files.valuations /\ sorted.dividends = Files.dividends
      /\ Files.bars = history /\ Files.statements = statements
  BY DEF Files
<1>4. /\ UsableBars(GatedBars(Files.bars), d) = UsableBars(GatedBars(sorted.bars), d)
      /\ UsableObservations(Files.statements, d) = UsableObservations(sorted.statements, d)
      /\ ValuationObservations(Files.valuations, d) = ValuationObservations(sorted.valuations, d)
      /\ DividendEvents(Files.dividends, d) = DividendEvents(sorted.dividends, d)
  BY <1>1, <1>2, <1>3
<1>. HIDE DEF sorted
<1>. QED BY <1>4, FactorsOfRecords

-----------------------------------------------------------------------------
(* What landed rows do to a file. *)

(* A merge keeps rows and appends the one that came. *)
LEMMA KeptAndAppended ==
  ASSUME NEW file, Listed(file), NEW places, places \subseteq DOMAIN file, NEW row
  PROVE  LET new == Kept(file, places) \o <<row>>
         IN  /\ new \in Seq(Rows(new))
             /\ \A i \in DOMAIN new : new[i] = row \/ \E p \in places : new[i] = file[p]
             /\ \A i, j \in DOMAIN new :
                  i # j => \/ \E p, q \in places : p # q /\ new[i] = file[p] /\ new[j] = file[q]
                           \/ \E p \in places : new[i] = row /\ new[j] = file[p]
                           \/ \E p \in places : new[j] = row /\ new[i] = file[p]
<1>. DEFINE kept == Kept(file, places)
            n == Cardinality(places)
            T == {file[p] : p \in places} \cup {row}
            new == kept \o <<row>>
<1>1. IsFiniteSet(places) /\ places \subseteq Nat
  BY ListsHavePlaces, FS_Subset
<1>2. n \in Nat /\ DOMAIN kept = 1 .. n /\ Picked(kept, file, places)
  BY <1>1, KeptIsPicked
<1>3. kept = [i \in 1 .. n |-> kept[i]]
  BY DEF Kept
<1>. HIDE DEF kept, n
<1>4. PICK a \in [DOMAIN kept -> places] :
        /\ \A i, j \in DOMAIN kept : i # j => a[i] # a[j]
        /\ \A i \in DOMAIN kept : kept[i] = file[a[i]]
  BY <1>2, Zenon DEF Picked
<1>5. kept \in [1 .. n -> T]
  BY <1>2, <1>3, <1>4
<1>6. kept \in Seq(T) /\ Len(kept) = n
  <2>. HIDE DEF T
  <2>. QED BY <1>2, <1>5
<1>7. /\ new \in Seq(T) /\ DOMAIN new = 1 .. n + 1 /\ Len(new) = n + 1
      /\ \A i \in 1 .. n : new[i] = kept[i]
      /\ new[n + 1] = row
  <2>1. row \in T
    OBVIOUS
  <2>. HIDE DEF T
  <2>. QED BY <1>2, <1>6, <2>1
<1>. HIDE DEF new
<1>8. \A i \in 1 .. n : a[i] \in places /\ new[i] = file[a[i]]
  BY <1>2, <1>4, <1>7
<1>9. new \in Seq(Rows(new))
  <2>1. new \in [1 .. n + 1 -> Rows(new)]
    BY <1>7 DEF Rows
  <2>. QED BY <1>2, <2>1
<1>10. ASSUME NEW i \in DOMAIN new
       PROVE  new[i] = row \/ \E p \in places : new[i] = file[p]
  BY <1>2, <1>7, <1>8
<1>11. ASSUME NEW i \in DOMAIN new, NEW j \in DOMAIN new, i # j
       PROVE  \/ \E p, q \in places : p # q /\ new[i] = file[p] /\ new[j] = file[q]
              \/ \E p \in places : new[i] = row /\ new[j] = file[p]
              \/ \E p \in places : new[j] = row /\ new[i] = file[p]
  <2>1. CASE i \in 1 .. n /\ j \in 1 .. n
    <3>1. a[i] # a[j]
      BY <1>2, <1>4, <1>11, <2>1
    <3>. QED BY <1>8, <2>1, <3>1
  <2>2. CASE i = n + 1 /\ j \in 1 .. n
    BY <1>7, <1>8, <2>2
  <2>3. CASE j = n + 1 /\ i \in 1 .. n
    BY <1>7, <1>8, <2>3
  <2>. QED BY <1>2, <1>7, <1>11, <2>1, <2>2, <2>3
<1>. QED BY <1>9, <1>10, <1>11 DEF new, kept

(* The instance keeps rows as the module does. *)
LEMMA SameKept ==
  \A file, places : Past!Kept(file, places) = Kept(file, places)
BY DEF Past!Kept, Kept, Past!Cardinality, Cardinality

(* The invariant of the landings. *)
LEMMA PastInit ==
  ASSUME Past!PastAssumption, Past!Init
  PROVE  PastInv
<1>1. history \in Seq(Range(history)) /\ Range(history) = Rows(history)
  BY DEF Past!PastAssumption, Past!Init, Range, Rows
<1>2. statements = <<>>
  BY DEF Past!Init
<1>3. statements \in Seq(Rows(statements)) /\ DOMAIN statements = {}
  BY <1>2
<1>. QED BY <1>1, <1>3 DEF PastInv

LEMMA PastStep ==
  ASSUME Past!PastAssumption, PastInv, [Past!Next]_pastVars
  PROVE  PastInv'
<1>1. CASE UNCHANGED <<history, statements>>
  BY <1>1 DEF PastInv, Rows
<1>2. ASSUME NEW date \in Date \cup {Garbled}, NEW cells \in BarCells, Past!LandBar(date, cells)
      PROVE  PastInv'
  <2>. DEFINE row == [day |-> date, close |-> cells[1], amount |-> cells[2], volume |-> cells[3]]
              places == {i \in DOMAIN history : \A j \in DOMAIN <<row>> : <<row>>[j].day # history[i].day}
  <2>1. history' = Kept(history, places) \o <<row>> /\ statements' = statements
    BY <1>2, SameKept DEF Past!LandBar, Past!MergedFile
  <2>. HIDE DEF row
  <2>2. places \subseteq DOMAIN history
    OBVIOUS
  <2>. HIDE DEF places
  <2>3. history' \in Seq(Rows(history'))
    BY <2>1, <2>2, FilesAreListed, KeptAndAppended
  <2>4. Rows(history') = Rows(history)' /\ Rows(statements)' = Rows(statements)
    BY <2>1 DEF Rows
  <2>. QED BY <2>1, <2>3, <2>4 DEF PastInv
<1>3. ASSUME NEW period \in Periods, NEW announced \in Date \cup {Blank},
             NEW cells \in StatementCells, Past!LandStatement(period, announced, cells)
      PROVE  PastInv'
  <2>. DEFINE row == [period |-> period, announced |-> announced,
                      net_operating_cashflow_ttm |-> cells[1], net_profit_parent_ttm |-> cells[2]]
              places == {i \in DOMAIN statements :
                           \A j \in DOMAIN <<row>> : <<row>>[j].period # statements[i].period}
  <2>1. statements' = Kept(statements, places) \o <<row>> /\ history' = history
    BY <1>3, SameKept DEF Past!LandStatement, Past!MergedFile
  <2>2. row.period = period /\ period \in Nat
    BY DEF Past!PastAssumption
  <2>. HIDE DEF row
  <2>3. places \subseteq DOMAIN statements /\ \A i \in places : statements[i].period # row.period
    <3>1. \A i \in places : <<row>>[1].period # statements[i].period
      OBVIOUS
    <3>. QED BY <3>1
  <2>. HIDE DEF places
  <2>4. /\ statements' \in Seq(Rows(statements'))
        /\ \A i \in DOMAIN statements' : statements'[i] = row \/ \E p \in places : statements'[i] = statements[p]
        /\ \A i, j \in DOMAIN statements' :
             i # j => \/ \E p, q \in places : p # q /\ statements'[i] = statements[p] /\ statements'[j] = statements[q]
                      \/ \E p \in places : statements'[i] = row /\ statements'[j] = statements[p]
                      \/ \E p \in places : statements'[j] = row /\ statements'[i] = statements[p]
    <3>. DEFINE new == Kept(statements, places) \o <<row>>
    <3>1. /\ new \in Seq(Rows(new))
          /\ \A i \in DOMAIN new : new[i] = row \/ \E p \in places : new[i] = statements[p]
          /\ \A i, j \in DOMAIN new :
               i # j => \/ \E p, q \in places : p # q /\ new[i] = statements[p] /\ new[j] = statements[q]
                        \/ \E p \in places : new[i] = row /\ new[j] = statements[p]
                        \/ \E p \in places : new[j] = row /\ new[i] = statements[p]
      BY <2>3, FilesAreListed, KeptAndAppended
    <3>2. statements' = new
      BY <2>1
    <3>. HIDE DEF new
    <3>. QED BY <3>1, <3>2
  <2>5. \A i \in DOMAIN statements' : statements'[i].period \in Nat
    BY <2>2, <2>3, <2>4 DEF PastInv
  <2>6. \A i, j \in DOMAIN statements' : i # j => statements'[i].period # statements'[j].period
    <3>1. \A p, q \in places : p # q => statements[p].period # statements[q].period
      BY <2>3 DEF PastInv
    <3>. QED BY <2>3, <2>4, <3>1
  <2>7. Rows(statements') = Rows(statements)' /\ Rows(history)' = Rows(history)
    BY <2>1 DEF Rows
  <2>. QED BY <2>1, <2>4, <2>5, <2>6, <2>7 DEF PastInv
<1>4. CASE Past!Next
  BY <1>1, <1>2, <1>3, <1>4
     DEF Past!Next, Past!NextDay, Past!LandValuations, Past!LandDividends
<1>. QED BY <1>1, <1>4 DEF pastVars

(* Whatever lands in whatever order, a file of one instrument stays a list *)
(* of rows with one statement a period (_merge_into_file).                 *)
THEOREM FilesKeepTheirRows ==
  ASSUME Past!PastAssumption PROVE Past!Spec => []PastInv
<1>1. Past!Init => PastInv
  BY PastInit
<1>2. PastInv /\ [Past!Next]_pastVars => PastInv'
  BY PastStep
<1>3. Past!Spec => Past!Init /\ [][Past!Next]_pastVars
  BY DEF Past!Spec, Past!pastVars, pastVars
<1>. QED BY <1>1, <1>2, <1>3, PTL

(* Bars and statements keep a date or none, and the files by day are known *)
(* for every day (PointInTime).                                            *)
THEOREM FilesAreWellTyped ==
  ASSUME Past!PastAssumption PROVE Past!Spec => []Past!TypeOK
<1>1. Past!Init => Past!TypeOK
  BY DEF Past!PastAssumption, Past!Init, Past!TypeOK
<1>2. ASSUME Past!TypeOK, PastInv, [Past!Next]_pastVars
      PROVE  Past!TypeOK'
  <2>1. CASE UNCHANGED pastVars
    BY <1>2, <2>1 DEF Past!TypeOK, pastVars
  <2>2. CASE Past!NextDay
    BY <1>2, <2>2 DEF Past!TypeOK, Past!NextDay
  <2>3. ASSUME NEW date \in Date \cup {Garbled}, NEW cells \in BarCells, Past!LandBar(date, cells)
        PROVE  Past!TypeOK'
    <3>. DEFINE row == [day |-> date, close |-> cells[1], amount |-> cells[2], volume |-> cells[3]]
                places == {i \in DOMAIN history : \A j \in DOMAIN <<row>> : <<row>>[j].day # history[i].day}
                new == Kept(history, places) \o <<row>>
    <3>1. history' = new
      BY <2>3, SameKept DEF Past!LandBar, Past!MergedFile
    <3>2. \A i \in DOMAIN new : new[i] = row \/ \E p \in places : new[i] = history[p]
      <4>1. places \subseteq DOMAIN history
        OBVIOUS
      <4>. HIDE DEF places, row
      <4>. QED BY <1>2, <4>1, FilesAreListed, KeptAndAppended
    <3>. HIDE DEF new
    <3>3. \A i \in DOMAIN history' : history'[i].day \in Date \cup {Garbled}
      BY <1>2, <3>1, <3>2 DEF Past!TypeOK
    <3>. QED BY <1>2, <2>3, <3>3 DEF Past!TypeOK, Past!LandBar
  <2>4. ASSUME NEW period \in Periods, NEW announced \in Date \cup {Blank},
               NEW cells \in StatementCells, Past!LandStatement(period, announced, cells)
        PROVE  Past!TypeOK'
    <3>. DEFINE row == [period |-> period, announced |-> announced,
                        net_operating_cashflow_ttm |-> cells[1], net_profit_parent_ttm |-> cells[2]]
                places == {i \in DOMAIN statements :
                             \A j \in DOMAIN <<row>> : <<row>>[j].period # statements[i].period}
                new == Kept(statements, places) \o <<row>>
    <3>1. statements' = new
      BY <2>4, SameKept DEF Past!LandStatement, Past!MergedFile
    <3>2. \A i \in DOMAIN new : new[i] = row \/ \E p \in places : new[i] = statements[p]
      <4>1. places \subseteq DOMAIN statements
        OBVIOUS
      <4>. HIDE DEF places, row
      <4>. QED BY <1>2, <4>1, FilesAreListed, KeptAndAppended
    <3>. HIDE DEF new
    <3>3. \A i \in DOMAIN statements' : statements'[i].announced \in Date \cup {Blank}
      BY <1>2, <3>1, <3>2 DEF Past!TypeOK
    <3>. QED BY <1>2, <2>4, <3>3 DEF Past!TypeOK, Past!LandStatement
  <2>5. ASSUME NEW block, Past!LandValuations(block)
        PROVE  Past!TypeOK'
    BY <1>2, <2>5 DEF Past!TypeOK, Past!LandValuations
  <2>6. ASSUME NEW rows, Past!LandDividends(rows)
        PROVE  Past!TypeOK'
    BY <1>2, <2>6 DEF Past!TypeOK, Past!LandDividends
  <2>. QED BY <1>2, <2>1, <2>2, <2>3, <2>4, <2>5, <2>6 DEF Past!Next
<1>3. Past!Spec => Past!Init /\ [][Past!Next]_pastVars
  BY DEF Past!Spec, Past!pastVars, pastVars
<1>. QED BY <1>1, <1>2, <1>3, FilesKeepTheirRows, PTL

(* What a merge does to a file, by places: the rows it keeps stand in both *)
(* files, and only the one that came stands in the new one alone.          *)
Appends(file, places, row, kept, new) ==
  /\ Listed(kept) /\ Listed(new) /\ Last(new) = row
  /\ Picked(kept, file, places)
  /\ \E n \in Nat : /\ 1 .. n \subseteq DOMAIN new
                   /\ Picked(kept, new, 1 .. n)
                   /\ \A i \in DOMAIN new \ (1 .. n) : new[i] = row
  /\ \A i \in DOMAIN new : new[i] = row \/ \E p \in places : new[i] = file[p]

LEMMA AppendedRow ==
  ASSUME NEW file, Listed(file), NEW places, places \subseteq DOMAIN file, NEW row,
         NEW kept, kept = Kept(file, places), NEW new, new = kept \o <<row>>
  PROVE  Appends(file, places, row, kept, new)
<1>. DEFINE n == Cardinality(places)
            T == {file[p] : p \in places} \cup {row}
<1>1. IsFiniteSet(places) /\ places \subseteq Nat
  BY ListsHavePlaces, FS_Subset
<1>2. n \in Nat /\ DOMAIN kept = 1 .. n /\ Picked(kept, file, places)
  BY <1>1, KeptIsPicked
<1>3. kept = [i \in 1 .. n |-> kept[i]]
  BY DEF Kept
<1>. HIDE DEF n
<1>4. PICK a \in [DOMAIN kept -> places] : \A i \in DOMAIN kept : kept[i] = file[a[i]]
  BY <1>2, Zenon DEF Picked
<1>5. kept \in [1 .. n -> T] /\ row \in T
  BY <1>2, <1>3, <1>4
<1>. HIDE DEF T
<1>6. kept \in Seq(T) /\ Len(kept) = n
  BY <1>2, <1>5
<1>7. /\ new \in Seq(T) /\ DOMAIN new = 1 .. n + 1 /\ Len(new) = n + 1
      /\ \A i \in 1 .. n : new[i] = kept[i]
      /\ new[n + 1] = row
  BY <1>2, <1>5, <1>6
<1>8. Picked(kept, new, 1 .. n)
  <2>. DEFINE at == [i \in 1 .. n |-> i]
  <2>1. /\ at \in [DOMAIN kept -> 1 .. n]
        /\ \A i, j \in DOMAIN kept : i # j => at[i] # at[j]
        /\ \A p \in 1 .. n : \E i \in DOMAIN kept : at[i] = p
        /\ \A i \in DOMAIN kept : kept[i] = new[at[i]]
    BY <1>2, <1>7
  <2>. HIDE DEF at
  <2>. QED BY <2>1, Zenon DEF Picked
<1>9. 1 .. n \subseteq DOMAIN new /\ \A i \in DOMAIN new \ (1 .. n) : new[i] = row
  BY <1>2, <1>7
<1>10. Listed(kept) /\ Listed(new) /\ Last(new) = row
  BY <1>2, <1>7 DEF Listed, Last
<1>11. \A i \in DOMAIN new : new[i] = row \/ \E p \in places : new[i] = file[p]
  BY <1>2, <1>4, <1>7
<1>. QED BY <1>2, <1>8, <1>9, <1>10, <1>11 DEF Appends

(* A bar of a later day, or of none, leaves the usable bars as they are,   *)
(* whatever bars of its own day it replaces.                               *)
LEMMA LaterBarsUnseen ==
  ASSUME Past!PastAssumption, PastInv, NEW d \in Date,
         NEW date \in Date \cup {Garbled}, NEW cells, Past!LandBar(date, cells),
         history' # history => Last(history').day \notin 1 .. d
  PROVE  UsableBars(GatedBars(history'), d) = UsableBars(GatedBars(history), d)
<1>. DEFINE row == [day |-> date, close |-> cells[1], amount |-> cells[2], volume |-> cells[3]]
            places == {i \in DOMAIN history : \A j \in DOMAIN <<row>> : <<row>>[j].day # history[i].day}
            kept == Kept(history, places)
<1>. SUFFICES ASSUME history' # history
              PROVE  UsableBars(GatedBars(history'), d) = UsableBars(GatedBars(history), d)
  OBVIOUS
<1>1. history' = kept \o <<row>>
  BY SameKept DEF Past!LandBar, Past!MergedFile
<1>2. \A i \in DOMAIN history : history[i].day # row.day => i \in places
  OBVIOUS
<1>3. places \subseteq DOMAIN history
  OBVIOUS
<1>. HIDE DEF row, places
<1>4. Listed(history)
  BY FilesAreListed
<1>. DEFINE appended == kept \o <<row>>
<1>4a. kept = Kept(history, places) /\ appended = kept \o <<row>> /\ history' = appended
  BY <1>1
<1>. HIDE DEF kept, appended
<1>4b. Appends(history, places, row, kept, appended)
  BY <1>3, <1>4, <1>4a, Zenon, AppendedRow
<1>5. /\ Listed(kept) /\ Listed(appended) /\ Last(appended) = row
      /\ Picked(kept, history, places)
  BY <1>4b DEF Appends
<1>6. PICK n \in Nat : /\ 1 .. n \subseteq DOMAIN appended
                       /\ Picked(kept, appended, 1 .. n)
                       /\ \A i \in DOMAIN appended \ (1 .. n) : appended[i] = row
  BY <1>4b DEF Appends
<1>6a. row.day \notin 1 .. d
  BY <1>4a, <1>5
<1>7. \A e \in Date : e <= d => e # row.day
  BY <1>6a, DateAssumption
<1>8. UsableBars(GatedBars(kept), d) = UsableBars(GatedBars(history), d)
  <2>1. \A i \in DOMAIN history : history[i].day \in Date /\ history[i].day <= d => i \in places
    BY <1>2, <1>7
  <2>. QED BY <1>3, <1>4, <1>5, <2>1, PickedBarsAreSole
<1>9. UsableBars(GatedBars(kept), d) = UsableBars(GatedBars(appended), d)
  <2>1. \A i \in DOMAIN appended : appended[i].day \in Date /\ appended[i].day <= d => i \in 1 .. n
    BY <1>6, <1>7
  <2>. QED BY <1>5, <1>6, <2>1, PickedBarsAreSole
<1>. QED BY <1>4a, <1>8, <1>9

(* A statement announced later leaves the usable ones as they are, unless  *)
(* it takes the place of one of them.                                      *)
LEMMA LaterStatementsUnseen ==
  ASSUME Past!PastAssumption, PastInv, NEW d \in Date,
         NEW period \in Periods, NEW announced \in Date \cup {Blank}, NEW cells,
         Past!LandStatement(period, announced, cells),
         statements' # statements => Last(statements').announced \notin 1 .. d,
         ~Restates(d)
  PROVE  UsableObservations(statements', d) = UsableObservations(statements, d)
<1>. DEFINE row == [period |-> period, announced |-> announced,
                    net_operating_cashflow_ttm |-> cells[1], net_profit_parent_ttm |-> cells[2]]
            places == {i \in DOMAIN statements :
                         \A j \in DOMAIN <<row>> : <<row>>[j].period # statements[i].period}
            kept == Kept(statements, places)
<1>. SUFFICES ASSUME statements' # statements
              PROVE  UsableObservations(statements', d) = UsableObservations(statements, d)
  OBVIOUS
<1>1. statements' = kept \o <<row>>
  BY SameKept DEF Past!LandStatement, Past!MergedFile
<1>2. \A i \in DOMAIN statements : i \in places <=> statements[i].period # row.period
  OBVIOUS
<1>3. places \subseteq DOMAIN statements
  OBVIOUS
<1>. HIDE DEF row, places
<1>4. Listed(statements)
  BY FilesAreListed
<1>. DEFINE appended == kept \o <<row>>
<1>4a. kept = Kept(statements, places) /\ appended = kept \o <<row>> /\ statements' = appended
  BY <1>1
<1>. HIDE DEF kept, appended
<1>4b. Appends(statements, places, row, kept, appended)
  BY <1>3, <1>4, <1>4a, Zenon, AppendedRow
<1>5. Last(appended) = row /\ Picked(kept, statements, places)
  BY <1>4b DEF Appends
<1>6. PICK n \in Nat : /\ 1 .. n \subseteq DOMAIN appended
                       /\ Picked(kept, appended, 1 .. n)
                       /\ \A i \in DOMAIN appended \ (1 .. n) : appended[i] = row
  BY <1>4b DEF Appends
<1>7. row.announced \notin 1 .. d
  BY <1>4a, <1>5
<1>8. \A i \in DOMAIN appended : appended[i] = row \/ \E p \in places : appended[i] = statements[p]
  BY <1>4b DEF Appends
<1>9. ASSUME NEW i \in DOMAIN statements, Dated(statements[i]), statements[i].announced <= d
      PROVE  i \in places
  <2>1. statements[i].announced \in 1 .. d
    BY <1>9, DateAssumption DEF Dated
  <2>2. statements[i] \in Rows(appended)
    BY <1>4a, <2>1 DEF Restates, Rows
  <2>3. statements[i] # row
    BY <1>7, <2>1
  <2>4. PICK p \in places : statements[i] = statements[p]
    BY <1>8, <2>2, <2>3 DEF Rows
  <2>5. statements[i].period # row.period
    BY <1>2, <1>3, <2>4
  <2>. QED BY <1>2, <2>5
<1>10. UsableObservations(kept, d) = UsableObservations(statements, d)
  BY <1>3, <1>5, <1>9, PickedStatements
<1>11. UsableObservations(kept, d) = UsableObservations(appended, d)
  <2>1. \A i \in DOMAIN appended : Dated(appended[i]) /\ appended[i].announced <= d => i \in 1 .. n
    BY <1>6, <1>7, DateAssumption DEF Dated
  <2>. QED BY <1>6, <2>1, PickedStatements
<1>. QED BY <1>4a, <1>10, <1>11

(* Files by day that agree up to a day are read alike as of that day.      *)
LEMMA LaterFilesUnseen ==
  ASSUME NEW files, NEW others, NEW d \in Date,
         \A f \in Date : f <= d => others[f] = files[f]
  PROVE  /\ ValuationObservations(others, d) = ValuationObservations(files, d)
         /\ DividendEvents(others, d) = DividendEvents(files, d)
<1>. DEFINE Cut(of) == [f \in Date |-> IF f <= d THEN of[f] ELSE NoValue]
<1>1. Cut(others) = Cut(files)
  OBVIOUS
<1>2. \A of : /\ ValuationObservations(Cut(of), d) = ValuationObservations(of, d)
              /\ DividendEvents(Cut(of), d) = DividendEvents(of, d)
  BY LatestFileIsOfThePast
<1>. HIDE DEF Cut
<1>. QED BY <1>1, <1>2

(* What lands about later days leaves a day's factors as they are.         *)
LEMMA LaterRowsUnseen ==
  ASSUME Past!PastAssumption, PastInv, [Past!Next]_pastVars,
         NEW d \in Date, LandsLater(d), ~Restates(d)
  PROVE  FactorsAsOf(Files', d) = FactorsAsOf(Files, d)
<1>1. UsableBars(GatedBars(history'), d) = UsableBars(GatedBars(history), d)
  <2>1. CASE history' = history
    BY <2>1
  <2>2. ASSUME NEW date \in Date \cup {Garbled}, NEW cells \in BarCells, Past!LandBar(date, cells)
        PROVE  UsableBars(GatedBars(history'), d) = UsableBars(GatedBars(history), d)
    BY <2>2, LaterBarsUnseen DEF LandsLater
  <2>. QED BY <2>1, <2>2 DEF Past!Next, Past!NextDay, Past!LandStatement, Past!LandValuations,
                            Past!LandDividends, pastVars
<1>2. UsableObservations(statements', d) = UsableObservations(statements, d)
  <2>1. CASE statements' = statements
    BY <2>1
  <2>2. ASSUME NEW period \in Periods, NEW announced \in Date \cup {Blank},
               NEW cells \in StatementCells, Past!LandStatement(period, announced, cells)
        PROVE  UsableObservations(statements', d) = UsableObservations(statements, d)
    BY <2>2, LaterStatementsUnseen DEF LandsLater
  <2>. QED BY <2>1, <2>2 DEF Past!Next, Past!NextDay, Past!LandBar, Past!LandValuations,
                            Past!LandDividends, pastVars
<1>3. /\ ValuationObservations(valuationFiles', d) = ValuationObservations(valuationFiles, d)
      /\ DividendEvents(dividendFiles', d) = DividendEvents(dividendFiles, d)
  BY LaterFilesUnseen DEF LandsLater
<1>. DEFINE one == Files'
            two == Files
<1>4. /\ UsableBars(GatedBars(one.bars), d) = UsableBars(GatedBars(two.bars), d)
      /\ UsableObservations(one.statements, d) = UsableObservations(two.statements, d)
      /\ ValuationObservations(one.valuations, d) = ValuationObservations(two.valuations, d)
      /\ DividendEvents(one.dividends, d) = DividendEvents(two.dividends, d)
  BY <1>1, <1>2, <1>3 DEF Files
<1>. HIDE DEF one, two
<1>5. FactorsAsOf(one, d) = FactorsAsOf(two, d)
  BY <1>4, FactorsOfRecords
<1>. QED BY <1>5 DEF one, two

(* What lands about later days changes no factor of a day, unless it       *)
(* replaces a statement that was out by then: bars, valuations and         *)
(* dividends never do (_trailing, _latest, latest_neodata_file,            *)
(* FinancialStatementNormalizer, _merge_into_file).                        *)
THEOREM FactorsKeepToTheirDay ==
  ASSUME Past!PastAssumption PROVE Past!Spec => NoLookAhead
<1>. DEFINE AsBefore == \A d \in Date : LandsLater(d) /\ ~Restates(d)
                                    => FactorsAsOf(Files', d) = FactorsAsOf(Files, d)
<1>1. PastInv /\ [Past!Next]_pastVars => AsBefore
  BY LaterRowsUnseen
<1>2. Past!Spec => [][Past!Next]_pastVars
  BY DEF Past!Spec, Past!pastVars, pastVars
<1>. HIDE DEF AsBefore
<1>3. PastInv /\ [Past!Next]_pastVars => [AsBefore]_pastVars
  BY <1>1
<1>4. Past!Spec => [][AsBefore]_pastVars
  BY <1>2, <1>3, FilesKeepTheirRows, PTL
<1>. QED BY <1>4 DEF NoLookAhead, AsBefore

(* No factor depends on the order in which the rows of a file landed       *)
(* (_trailing sorts by day, the statements are told by their periods).     *)
THEOREM FactorsForgetTheOrder ==
  ASSUME Past!PastAssumption PROVE Past!Spec => []OrderIsForgotten
<1>1. PastInv => OrderIsForgotten
  BY OrderNeverMatters
<1>. QED BY <1>1, FilesKeepTheirRows, PTL

-----------------------------------------------------------------------------
(* A blank report is no measurement. *)

(* A list of reports of one period each. *)
Lone(rows) ==
  /\ Listed(rows)
  /\ \A i \in DOMAIN rows : rows[i].period \in Nat
  /\ \A i, j \in DOMAIN rows : rows[i].period = rows[j].period => i = j

Profit == "net_profit_parent_ttm"

(* What the usable statements say of the profit. *)
ProfitOf(row) ==
  [metric |-> Profit, period |-> row.period, available |-> row.announced, value |-> Number(row[Profit])]

Out(rows, d) == {r \in Rows(rows) : Dated(r) /\ r.announced <= d /\ r[Profit] # Garbled}

(* Reports of one period each are all usable once they are out.            *)
LEMMA LoneRowsAreUsable ==
  ASSUME NEW rows, Lone(rows), NEW d
  PROVE  {o \in UsableObservations(rows, d) : o.metric = Profit} = {ProfitOf(r) : r \in Out(rows, d)}
<1>. DEFINE visible == {i \in DOMAIN rows : Dated(rows[i]) /\ rows[i].announced <= d}
<1>1. UsableObservations(rows, d) = UNION {Stated(rows[i]) : i \in visible}
  <2>1. visible = {i \in visible : \A j \in visible \ {i} : rows[j].period # rows[i].period}
    BY DEF Lone
  <2>. HIDE DEF visible
  <2>2. UsableObservations(rows, d)
          = UNION {Stated(rows[i]) : i \in {i \in visible : \A j \in visible \ {i} : rows[j].period # rows[i].period}}
    BY DEF UsableObservations, visible
  <2>. QED BY <2>1, <2>2
<1>2. \A row : {o \in Stated(row) : o.metric = Profit}
                = IF row[Profit] # Garbled THEN {ProfitOf(row)} ELSE {}
  BY DEF Stated, ProfitOf, Profit, Metric
<1>3. ASSUME NEW o \in UsableObservations(rows, d), o.metric = Profit
      PROVE  o \in {ProfitOf(r) : r \in Out(rows, d)}
  <2>1. PICK i \in visible : o \in Stated(rows[i])
    BY <1>1
  <2>2. rows[i][Profit] # Garbled /\ o = ProfitOf(rows[i])
    BY <1>2, <1>3, <2>1
  <2>. QED BY <2>1, <2>2 DEF Out, Rows
<1>4. ASSUME NEW r \in Out(rows, d)
      PROVE  ProfitOf(r) \in UsableObservations(rows, d) /\ ProfitOf(r).metric = Profit
  <2>1. PICK i \in visible : rows[i] = r
    BY DEF Out, Rows
  <2>2. ProfitOf(r) \in Stated(rows[i])
    BY <1>2, <2>1 DEF Out
  <2>3. ProfitOf(r).metric = Profit
    BY DEF ProfitOf
  <2>. HIDE DEF visible
  <2>. QED BY <1>1, <2>1, <2>2, <2>3
<1>. QED BY <1>3, <1>4

(* What counts of the observations of a metric: the newest with a value.   *)
NewestOf(pool) ==
  IF pool = {} THEN NoValue ELSE CHOOSE o \in pool : \A p \in pool \ {o} : Newer(o, p)

LatestOf(observations) ==
  LET valued == {o \in observations : o.value # NoValue}
  IN  NewestOf(IF valued # {} THEN valued ELSE observations)

(* Of reports of one period each, the profit is that of the latest.        *)
LEMMA LatestProfit ==
  ASSUME NEW rows, Lone(rows), NEW d
  PROVE  LatestObservation(UsableObservations(rows, d), Profit, d)
           = LatestOf({ProfitOf(r) : r \in Out(rows, d)})
<1>. DEFINE O == UsableObservations(rows, d)
            mine == {o \in O : o.metric = Profit}
<1>1. mine = {ProfitOf(r) : r \in Out(rows, d)}
  BY LoneRowsAreUsable
<1>2. \A o \in mine : o.available <= d
  BY <1>1 DEF ProfitOf, Out
<1>3. {o \in O : o.metric = Profit /\ o.available <= d} = mine
  BY <1>2
<1>4. LatestObservation(O, Profit, d) = LatestOf({o \in O : o.metric = Profit /\ o.available <= d})
  BY DEF LatestObservation, LatestOf, NewestOf
<1>. HIDE DEF mine, O
<1>5. LatestObservation(O, Profit, d) = LatestOf(mine)
  BY <1>3, <1>4
<1>. QED BY <1>1, <1>5 DEF O

(* Where no report has a value, the latest has none.                       *)
LEMMA LatestOfBlanks ==
  ASSUME NEW rows, Lone(rows), NEW d,
         \A r \in Out(rows, d) : ProfitOf(r).value = NoValue,
         LatestOf({ProfitOf(r) : r \in Out(rows, d)}) # NoValue
  PROVE  LatestOf({ProfitOf(r) : r \in Out(rows, d)}).value = NoValue
<1>. DEFINE pool == {ProfitOf(r) : r \in Out(rows, d)}
            periods == {o.period : o \in pool}
<1>1. pool # {} /\ LatestOf(pool) = CHOOSE o \in pool : \A p \in pool \ {o} : Newer(o, p)
  <2>1. {o \in pool : o.value # NoValue} = {}
    OBVIOUS
  <2>. HIDE DEF pool
  <2>2. LatestOf(pool) = NewestOf(pool)
    BY <2>1 DEF LatestOf
  <2>3. LatestOf(pool) # NoValue
    BY DEF pool
  <2>. QED BY <2>2, <2>3 DEF NewestOf
<1>2. \A o, p \in pool : o.period = p.period => o = p
  BY DEF ProfitOf, Out, Rows, Lone
<1>3. \A o \in pool : o.period \in Nat
  BY DEF ProfitOf, Out, Rows, Lone
<1>4. IsFiniteSet(pool)
  <2>1. IsFiniteSet(DOMAIN rows)
    BY ListsHavePlaces DEF Lone
  <2>2. IsFiniteSet({ProfitOf(rows[i]) : i \in DOMAIN rows})
    <3>. DEFINE f == [i \in DOMAIN rows |-> ProfitOf(rows[i])]
    <3>1. DOMAIN f = DOMAIN rows /\ {f[i] : i \in DOMAIN rows} = {ProfitOf(rows[i]) : i \in DOMAIN rows}
      OBVIOUS
    <3>. HIDE DEF f
    <3>. QED BY <2>1, <3>1, ImageIsFinite
  <2>3. pool \subseteq {ProfitOf(rows[i]) : i \in DOMAIN rows}
    BY DEF Out, Rows
  <2>. QED BY <2>2, <2>3, FS_Subset
<1>. HIDE DEF pool
<1>5. IsFiniteSet(periods)
  <2>. DEFINE f == [o \in pool |-> o.period]
  <2>1. DOMAIN f = pool /\ {f[o] : o \in pool} = periods
    OBVIOUS
  <2>. HIDE DEF f, periods
  <2>. QED BY <1>4, <2>1, ImageIsFinite
<1>6. PICK o \in pool : \A p \in pool : o.period >= p.period
  <2>1. periods \subseteq Int /\ periods # {}
    BY <1>1, <1>3
  <2>2. Max(periods) \in periods /\ \A y \in periods : Max(periods) >= y
    <3>. HIDE DEF periods
    <3>. QED BY <1>5, <2>1, MaxIsMember
  <2>. QED BY <2>2
<1>7. \A p \in pool \ {o} : Newer(o, p)
  BY <1>2, <1>3, <1>6 DEF Newer
<1>8. LatestOf(pool) \in pool
  BY <1>1, <1>6, <1>7
<1>9. \A p \in pool : p.value = NoValue
  BY DEF pool
<1>. QED BY <1>8, <1>9 DEF pool

(* A reported profit is that of its latest observation.                    *)
LEMMA PassthroughOfLatest ==
  ASSUME NEW one, NEW two, NEW d, MetricPassthrough(one, d).status = "VALUE"
  PROVE  LET latest == LatestObservation(one, Profit, d)
         IN  /\ latest # NoValue /\ latest.value # NoValue
             /\ LatestObservation(two, Profit, d) = latest
                  => MetricPassthrough(two, d) = MetricPassthrough(one, d)
<1>. DEFINE latest(O) == LatestObservation(O, Profit, d)
            blocked(O) == BlockingStatus(O, <<Profit>>, d)
<1>1. \A O : MetricPassthrough(O, d) = IF blocked(O) # NoValue THEN Missing(blocked(O))
                                       ELSE Value(latest(O).value)
  BY DEF MetricPassthrough, Profit
<1>2. \A O : latest(O) = NoValue => blocked(O) \in {"NULL", "NOT_APPLICABLE"}
  <2>. SUFFICES ASSUME NEW O, latest(O) = NoValue PROVE blocked(O) \in {"NULL", "NOT_APPLICABLE"}
    OBVIOUS
  <2>1. 1 \in {i \in DOMAIN <<Profit>> : LatestObservation(O, <<Profit>>[i], d) = NoValue}
    OBVIOUS
  <2>. QED BY <2>1 DEF BlockingStatus
<1>3. \A O : latest(O) # NoValue
        => blocked(O) = IF latest(O).value = NoValue THEN "NULL"
                        ELSE IF StaleAfter # NoValue /\ d - latest(O).available > StaleAfter THEN "STALE"
                        ELSE NoValue
  <2>. SUFFICES ASSUME NEW O, latest(O) # NoValue
                PROVE  blocked(O) = IF latest(O).value = NoValue THEN "NULL"
                        ELSE IF StaleAfter # NoValue /\ d - latest(O).available > StaleAfter THEN "STALE"
                        ELSE NoValue
    OBVIOUS
  <2>1. {i \in DOMAIN <<Profit>> : LatestObservation(O, <<Profit>>[i], d) = NoValue} = {}
    OBVIOUS
  <2>2. Range(<<Profit>>) = {Profit}
    BY DEF Range
  <2>. QED BY <2>1, <2>2 DEF BlockingStatus
<1>. HIDE DEF latest, blocked
<1>4. blocked(one) = NoValue
  BY <1>1, <1>2, <1>3, FactorAssumption DEF Missing, Status
<1>5. latest(one) # NoValue /\ latest(one).value # NoValue
  BY <1>2, <1>3, <1>4, FactorAssumption DEF Status
<1>6. ASSUME latest(two) = latest(one) PROVE MetricPassthrough(two, d) = MetricPassthrough(one, d)
  <2>1. blocked(two) = blocked(one)
    BY <1>3, <1>5, <1>6
  <2>. QED BY <1>1, <1>6, <2>1
<1>. QED BY <1>5, <1>6 DEF latest

(* Reports without a value more or less, replaced ones included, leave the *)
(* reported profit as it is.                                               *)
LEMMA BlanksAreSetAside ==
  ASSUME NEW rows, Lone(rows), NEW others, Lone(others), NEW d,
         \A row \in (Rows(rows) \ Rows(others)) \cup (Rows(others) \ Rows(rows)) :
           Number(row[Profit]) = NoValue,
         MetricPassthrough(UsableObservations(rows, d), d).status = "VALUE"
  PROVE  MetricPassthrough(UsableObservations(others, d), d)
           = MetricPassthrough(UsableObservations(rows, d), d)
<1>. DEFINE one == {ProfitOf(r) : r \in Out(rows, d)}
            two == {ProfitOf(r) : r \in Out(others, d)}
<1>1. /\ LatestObservation(UsableObservations(rows, d), Profit, d) = LatestOf(one)
      /\ LatestObservation(UsableObservations(others, d), Profit, d) = LatestOf(two)
  BY LatestProfit
<1>2. LatestOf(one) # NoValue /\ LatestOf(one).value # NoValue
  BY <1>1, PassthroughOfLatest
<1>3. {o \in one : o.value # NoValue} # {}
  BY <1>2, LatestOfBlanks
<1>4. {o \in two : o.value # NoValue} = {o \in one : o.value # NoValue}
  <2>1. \A r \in Out(rows, d) : ProfitOf(r).value # NoValue => r \in Out(others, d)
    BY DEF Out, ProfitOf
  <2>2. \A r \in Out(others, d) : ProfitOf(r).value # NoValue => r \in Out(rows, d)
    BY DEF Out, ProfitOf
  <2>. QED BY <2>1, <2>2
<1>. HIDE DEF one, two
<1>5. LatestOf(two) = LatestOf(one)
  BY <1>3, <1>4 DEF LatestOf
<1>. QED BY <1>1, <1>5, PassthroughOfLatest

(* The landed statements are such reports. *)
LEMMA StatementsAreLone ==
  ASSUME PastInv
  PROVE  Lone(statements)
BY FilesAreListed DEF PastInv, Lone

(* A report without a value never hides the profit the market knew of      *)
(* already, be it of a new period or in the place of one without a value;  *)
(* one that replaces a value is left out (_latest, _merge_into_file).      *)
THEOREM BlanksNeverHide ==
  ASSUME Past!PastAssumption PROVE Past!Spec => BlankHidesNothing
<1>. DEFINE Blanks == \A row \in (Rows(statements) \ Rows(statements'))
                                 \cup (Rows(statements') \ Rows(statements)) :
                        Number(row.net_profit_parent_ttm) = NoValue
            Same == \A d \in Date :
                       LET before == FactorsAsOf(Files, d).net_profit
                       IN  before.status = "VALUE" => FactorsAsOf(Files', d).net_profit = before
<1>1. ASSUME PastInv, PastInv', Blanks
      PROVE  Same
  <2>. SUFFICES ASSUME NEW d \in Date, FactorsAsOf(Files, d).net_profit.status = "VALUE"
                PROVE  FactorsAsOf(Files', d).net_profit = FactorsAsOf(Files, d).net_profit
    OBVIOUS
  <2>1. Lone(statements) /\ Lone(statements')
    <3>1. Lone(statements')
      <4>1. PastInv' => Lone(statements)'
        BY StatementsAreLone, PTL
      <4>. QED BY <1>1, <4>1
    <3>. QED BY <1>1, <3>1, StatementsAreLone
  <2>2. /\ FactorsAsOf(Files, d).net_profit = MetricPassthrough(UsableObservations(statements, d), d)
        /\ FactorsAsOf(Files', d).net_profit = MetricPassthrough(UsableObservations(statements', d), d)
    BY DEF FactorsAsOf, Files
  <2>. QED BY <1>1, <2>1, <2>2, BlanksAreSetAside DEF Profit
<1>2. PastInv /\ PastInv' => [Blanks => Same]_statements
  BY <1>1
<1>. HIDE DEF Blanks, Same
<1>3. Past!Spec => [][Blanks => Same]_statements
  BY <1>2, FilesKeepTheirRows, PTL
<1>. QED BY <1>3 DEF BlankHidesNothing, Blanks, Same
=============================================================================
