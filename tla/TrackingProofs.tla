---------------------------- MODULE TrackingProofs ----------------------------
(***************************************************************************)
(* Proofs about Tracking, for any parcels, codes, orders and bounds.  The  *)
(* first part is about the table ttns and the copies a poll holds of its   *)
(* rows: the progress of a parcel only moves forward, its links are kept,  *)
(* and finished parcels are not polled.  The outbox, which tracking only   *)
(* adds to, has no part in that.                                           *)
(*                                                                         *)
(* The second part is about what is told of a parcel: customers hear of    *)
(* each stage once, in order and only of their own parcels, and the status *)
(* jobs tell the same story.  It rests on the first: the copies a poll     *)
(* goes by have the progress of the rows, so what is progress to the poll  *)
(* is progress over everything told before.                                *)
(***************************************************************************)
EXTENDS Tracking, FiniteSetTheorems, TLAPS

------------------------------------------------------------------------------
(* Rows *)

\* A row of ttns, of which only the rank needs a type.
RowOK(r) ==
    r \in [ext : {r.ext}, sd : {r.sd}, code : {r.code}, rank : Nat,
           final : BOOLEAN, due : BOOLEAN, old : BOOLEAN]

SameProgress(r, s) == s.code = r.code /\ s.rank = r.rank /\ s.final = r.final

SameLinks(r, s) ==
    /\ r.ext # NoExt => s.ext = r.ext
    /\ r.sd # NoId => s.sd = r.sd

\* What finished means for a row: nothing polls it any more.
Finished(r) == Ended(r.code) => r.final

RowsInv == \A n \in DOMAIN ttns : RowOK(ttns[n]) /\ Finished(ttns[n])

PolledInv == \A n \in DOMAIN polled : RowOK(polled[n]) /\ polled[n].final = FALSE

\* The inductive invariant.
ProgressInv == RowsInv /\ PolledInv /\ PolledFresh

\* A rank is a number whatever the code.
LEMMA RankNat == ASSUME NEW code PROVE Rank(code) \in Nat
  BY DEF Rank

\* A new row is not finished.
LEMMA NewNotEnded == ~Ended(0)
  BY DEF Ended, Stage

ProperRows(table) == \A m \in DOMAIN table : RowOK(table[m])

\* Table t is this table with parcel n added to it or, if it was there, linked.
WithParcel(table, n, t) ==
    /\ DOMAIN t = DOMAIN table \cup {n}
    /\ \A m \in DOMAIN table : /\ RowOK(t[m])
                               /\ SameProgress(table[m], t[m])
                               /\ SameLinks(table[m], t[m])
    /\ n \notin DOMAIN table => RowOK(t[n]) /\ t[n].code = 0

\* A parcel that is added has a proper row; one that is there gains links only.
LEMMA AddTTNRows ==
    ASSUME NEW table, NEW n, NEW ext, NEW id, NEW t,
           t = AddTTN(table, n, ext, id),
           ProperRows(table)
    PROVE  WithParcel(table, n, t)
<1>. USE DEF ProperRows, WithParcel
<1>1. CASE n \in DOMAIN table
  <2> DEFINE e == IF table[n].ext = NoExt THEN ext ELSE table[n].ext
             s == IF table[n].sd = NoId THEN id ELSE table[n].sd
             r == [[table[n] EXCEPT !.ext = e] EXCEPT !.sd = s]
  <2>1. t = [table EXCEPT ![n] = r]
    BY <1>1 DEF AddTTN
  <2>2. RowOK(table[n])
    BY <1>1
  <2>3. /\ RowOK(r) /\ SameProgress(table[n], r)
        /\ r.ext = e /\ r.sd = s
    BY <2>2 DEF RowOK, SameProgress
  <2>4. SameLinks(table[n], r)
    BY <2>3 DEF SameLinks
  <2>. QED
    BY <1>1, <2>1, <2>3, <2>4 DEF SameProgress, SameLinks
<1>2. CASE n \notin DOMAIN table
  <2> DEFINE r == [ext |-> ext, sd |-> id, code |-> 0, rank |-> 0,
                   final |-> FALSE, due |-> TRUE, old |-> FALSE]
  <2>1. t = [m \in DOMAIN table \cup {n} |-> IF m = n THEN r ELSE table[m]]
    BY <1>2 DEF AddTTN, InsertTTN
  <2>2. RowOK(r) /\ r.code = 0
    BY DEF RowOK
  <2>. QED
    BY <1>2, <2>1, <2>2 DEF SameProgress, SameLinks
<1>. QED
  BY <1>1, <1>2

------------------------------------------------------------------------------
(* Steps *)

\* What a step may do to the rows of ttns without a poll's second transaction.
Grows ==
    /\ DOMAIN ttns \subseteq DOMAIN ttns'
    /\ \A n \in DOMAIN ttns : /\ RowOK(ttns'[n])
                              /\ SameProgress(ttns[n], ttns'[n])
                              /\ SameLinks(ttns[n], ttns'[n])
    /\ \A n \in DOMAIN ttns' \ DOMAIN ttns : RowOK(ttns'[n]) /\ ttns'[n].code = 0

\* Such a step keeps everything, if a poll keeps its copies or drops them.
LEMMA GrowsKeeps ==
    ASSUME ProgressInv, Grows,
           polled' = polled \/ DOMAIN polled' = {}
    PROVE  ProgressInv' /\ MovesForward /\ KeepsLinks
<1>1. RowsInv'
  <2>1. ASSUME NEW n \in DOMAIN ttns' PROVE RowOK(ttns'[n]) /\ Finished(ttns'[n])
    <3>1. CASE n \in DOMAIN ttns
      BY <3>1 DEF ProgressInv, RowsInv, Grows, SameProgress, Finished
    <3>2. CASE n \notin DOMAIN ttns
      BY <2>1, <3>2, NewNotEnded DEF Grows, Finished
    <3>. QED
      BY <3>1, <3>2
  <2>. QED
    BY <2>1 DEF RowsInv
<1>2. PolledInv' /\ PolledFresh'
  <2>1. CASE polled' = polled
    BY <2>1 DEF ProgressInv, PolledInv, PolledFresh, Grows, SameProgress
  <2>2. CASE DOMAIN polled' = {}
    BY <2>2 DEF PolledInv, PolledFresh
  <2>. QED
    BY <2>1, <2>2
<1>3. MovesForward
  <2>1. ASSUME NEW n \in DOMAIN ttns
        PROVE  /\ ttns'[n].rank >= ttns[n].rank
               /\ ttns'[n].code = ttns[n].code
               /\ ttns'[n].final = ttns[n].final
    <3>1. ttns[n].rank \in Nat
      BY DEF ProgressInv, RowsInv, RowOK
    <3>. QED
      BY <3>1 DEF Grows, SameProgress
  <2>. QED
    BY <2>1 DEF MovesForward
<1>4. KeepsLinks
  BY DEF Grows, SameLinks, KeepsLinks
<1>. QED
  BY <1>1, <1>2, <1>3, <1>4 DEF ProgressInv

\* A step that leaves the table alone is one of them.
LEMMA SameGrows ==
    ASSUME ProgressInv, ttns' = ttns PROVE Grows
  BY DEF ProgressInv, RowsInv, Grows, SameProgress, SameLinks

\* So is one that adds a parcel.
LEMMA AddGrows ==
    ASSUME ProgressInv, NEW n, NEW ext, NEW id, ttns' = AddTTN(ttns, n, ext, id)
    PROVE  Grows
<1>1. ProperRows(ttns)
  BY DEF ProgressInv, RowsInv, ProperRows
<1>2. PICK t : t = ttns'
  OBVIOUS
<1>3. t = AddTTN(ttns, n, ext, id)
  BY <1>2
<1>4. WithParcel(ttns, n, t)
  BY ONLY <1>1, <1>3, AddTTNRows
<1>. QED
  BY <1>2, <1>4 DEF WithParcel, Grows

\* So is the passing of time.
LEMMA TimeGrows ==
    ASSUME ProgressInv, NEW n \in DOMAIN ttns,
           PollEveryElapses(n) \/ Ages(n)
    PROVE  Grows
<1> DEFINE r == ttns[n]
           d == [r EXCEPT !.due = TRUE]
           o == [r EXCEPT !.old = TRUE]
<1>1. \A m \in DOMAIN ttns : RowOK(ttns[m])
  BY DEF ProgressInv, RowsInv
<1>2. ttns' = [ttns EXCEPT ![n] = d] \/ ttns' = [ttns EXCEPT ![n] = o]
  BY DEF PollEveryElapses, Ages
<1>3. RowOK(d) /\ SameProgress(r, d) /\ SameLinks(r, d)
  BY <1>1 DEF RowOK, SameProgress, SameLinks
<1>4. RowOK(o) /\ SameProgress(r, o) /\ SameLinks(r, o)
  BY <1>1 DEF RowOK, SameProgress, SameLinks
<1>. QED
  BY <1>1, <1>2, <1>3, <1>4 DEF Grows, SameProgress, SameLinks

\* What a poll makes of a row: more progress, or none, and the same links.
Polls(r, s) ==
    /\ RowOK(s) /\ Finished(s)
    /\ s.ext = r.ext /\ s.sd = r.sd
    /\ s.rank >= r.rank
    /\ s.code # r.code => s.rank > r.rank
    /\ r.final => s.final

\* The row a poll writes is one of these.
LEMMA PolledRowPolls ==
    ASSUME ProgressInv, NEW n \in DOMAIN polled, NEW got
    PROVE  Polls(ttns[n], UpdateTTN(ttns[n], PolledRow(n, got)))
<1> DEFINE r == ttns[n]
           x == polled[n]
           news == n \in News(got)
           c == IF news THEN got[n] ELSE x.code
           k == IF news THEN Rank(got[n]) ELSE x.rank
           f == x.final \/ r.old \/ (news /\ Final(got[n]))
<1>1. /\ RowOK(r) /\ RowOK(x) /\ Finished(r)
      /\ x.code = r.code /\ x.rank = r.rank
      /\ x.final = FALSE /\ r.final = FALSE
  BY DEF ProgressInv, RowsInv, PolledInv, PolledFresh
<1>2. k \in Nat /\ x.rank \in Nat /\ f \in BOOLEAN
  BY <1>1, RankNat DEF RowOK
<1>3. PICK p : p = PolledRow(n, got)
  OBVIOUS
<1>4. p.code = c /\ p.rank = k /\ p.final = f /\ p.due = FALSE
  BY <1>1, <1>3 DEF PolledRow, RowOK
<1>5. PICK s : s = UpdateTTN(r, p)
  OBVIOUS
<1>6. /\ s.ext = r.ext /\ s.sd = r.sd /\ s.code = c /\ s.rank = k /\ s.final = f
      /\ RowOK(s)
  BY <1>1, <1>2, <1>4, <1>5 DEF UpdateTTN, RowOK
<1>7. Polls(r, s)
  <2>1. CASE news
    <3>1. k > x.rank /\ c = got[n]
      BY <2>1 DEF News, Forward
    <3>2. Ended(c) => f
      BY <2>1, <3>1 DEF Ended, Final
    <3>3. Finished(s)
      BY <1>6, <3>2 DEF Finished
    <3>4. s.rank > r.rank
      BY <1>1, <1>6, <3>1
    <3>5. s.rank >= r.rank
      BY <1>1, <1>2, <1>6, <3>4
    <3>. HIDE DEF r, x, c, k, f
    <3>. QED
      BY <1>1, <1>6, <3>3, <3>4, <3>5 DEF Polls
  <2>2. CASE ~news
    <3>. HIDE DEF r, x, news
    <3>. QED
      BY <1>1, <1>2, <1>6, <2>2 DEF Polls, Finished
  <2>. QED
    BY <2>1, <2>2
<1>. QED
  BY <1>3, <1>5, <1>7

\* The second transaction of a poll keeps everything.
LEMMA PollStoredKeeps ==
    ASSUME ProgressInv, NEW got, PollStored(got)
    PROVE  ProgressInv' /\ MovesForward /\ KeepsLinks
<1>1. WriteBack(got) /\ polled' = <<>>
  BY DEF PollStored
<1>2. /\ DOMAIN ttns' = DOMAIN ttns
      /\ \A n \in DOMAIN polled :
            ttns'[n] = UpdateTTN(ttns[n], PolledRow(n, got))
      /\ \A n \in DOMAIN ttns \ DOMAIN polled : ttns'[n] = ttns[n]
      /\ DOMAIN polled' = {}
  BY <1>1 DEF WriteBack, ProgressInv, PolledFresh
<1>3. ASSUME NEW n \in DOMAIN ttns PROVE Polls(ttns[n], ttns'[n])
  <2>1. CASE n \in DOMAIN polled
    BY <1>2, <2>1, PolledRowPolls
  <2>2. CASE n \notin DOMAIN polled
    <3>1. RowOK(ttns[n]) /\ Finished(ttns[n]) /\ ttns[n].rank \in Nat
      BY DEF ProgressInv, RowsInv, RowOK
    <3>. QED
      BY <1>2, <2>2, <3>1 DEF Polls
  <2>. QED
    BY <2>1, <2>2
<1>4. ProgressInv'
  BY <1>2, <1>3 DEF ProgressInv, RowsInv, PolledInv, PolledFresh, Polls
<1>5. MovesForward /\ KeepsLinks
  BY <1>2, <1>3 DEF MovesForward, KeepsLinks, Polls
<1>. QED
  BY <1>4, <1>5

\* A poll begins with copies of rows that are not finished.
LEMMA PollBeginsKeeps ==
    ASSUME ProgressInv, PollBegins
    PROVE  ProgressInv' /\ MovesForward /\ KeepsLinks
<1>1. /\ ttns' = ttns
      /\ DOMAIN polled' = DueTTNs
      /\ \A n \in DueTTNs : polled'[n] = ttns[n]
  BY DEF PollBegins
<1>2. \A n \in DueTTNs : /\ n \in DOMAIN ttns /\ RowOK(ttns[n])
                         /\ ttns[n].final = FALSE
  BY DEF DueTTNs, Unpolled, ProgressInv, RowsInv, RowOK
<1>3. ProgressInv'
  BY <1>1, <1>2 DEF ProgressInv, RowsInv, PolledInv, PolledFresh
<1>4. MovesForward /\ KeepsLinks
  BY <1>1 DEF ProgressInv, RowsInv, RowOK, MovesForward, KeepsLinks
<1>. QED
  BY <1>3, <1>4

\* What every step of the specification keeps, whatever it does to the outbox.
Kept == ProgressInv' /\ MovesForward /\ KeepsLinks

\* A step that leaves the table and the copies alone, or drops the copies.
LEMMA ElsewhereKeeps ==
    ASSUME ProgressInv, ttns' = ttns, polled' = polled \/ polled' = <<>>
    PROVE  Kept
  BY SameGrows, GrowsKeeps DEF Kept

\* A handler that may add a parcel.
LEMMA HandlerKeeps ==
    ASSUME ProgressInv, polled' = polled,
           NEW n, NEW ext, NEW id, ttns' = AddTTN(ttns, n, ext, id)
    PROVE  Kept
  BY AddGrows, GrowsKeeps DEF Kept

\* Every step keeps the invariant, moves parcels forward and keeps their links.
LEMMA StepKeeps ==
    ASSUME ProgressInv, [Next]_vars
    PROVE  Kept
<1>1. ASSUME NEW ext \in ExternalIds, Ingest(ext) PROVE Kept
  <2>1. polled' = polled
    BY <1>1 DEF Ingest, pollVars
  <2>2. \/ ttns' = ttns
        \/ \E n \in Numbers : ttns' = AddTTN(ttns, n, ext, NoId)
    BY <1>1 DEF Ingest
  <2>. QED
    BY <2>1, <2>2, ElsewhereKeeps, HandlerKeeps
<1>2. ASSUME NEW id \in DOMAIN deals, NEW n \in Numbers, WebhookWithTTN(id, n)
      PROVE  Kept
  BY <1>2, HandlerKeeps DEF WebhookWithTTN, pollVars
<1>3. ASSUME NEW n \in Numbers, NEW ext \in ByHand, AddTTNByHand(n, ext)
      PROVE  Kept
  BY <1>3, HandlerKeeps DEF AddTTNByHand, pollVars
<1>4. CASE PollBegins
  BY <1>4, PollBeginsKeeps DEF Kept
<1>5. CASE PollStep
  <2>1. CASE PollFailed
    BY <2>1, ElsewhereKeeps DEF PollFailed
  <2>2. ASSUME NEW S \in SUBSET DOMAIN polled, NEW got \in [S -> Codes],
               PollStored(got)
        PROVE  Kept
    BY <2>2, PollStoredKeeps DEF Kept
  <2>3. CASE SendNotice
    BY <2>3, ElsewhereKeeps DEF SendNotice
  <2>. QED
    BY <1>5, <2>1, <2>2, <2>3 DEF PollStep, PollAnswered
<1>6. CASE PollAbort
  BY <1>6, ElsewhereKeeps DEF PollAbort
<1>7. ASSUME NEW n \in DOMAIN ttns, PollEveryElapses(n) \/ Ages(n) PROVE Kept
  <2>1. polled' = polled
    BY <1>7 DEF PollEveryElapses, Ages, pollVars
  <2>. QED
    BY <1>7, <2>1, TimeGrows, GrowsKeeps DEF Kept
<1>8. ASSUME UNCHANGED trackingVars PROVE Kept
  BY <1>8, ElsewhereKeeps DEF trackingVars, pollVars
<1>9. CASE Round
  BY <1>8, <1>9 DEF Round
<1>10. ASSUME NEW i \in DOMAIN batch, WorkerStep(i) PROVE Kept
  <2>1. UNCHANGED trackingVars
    BY <1>10 DEF WorkerStep, StatusStep, StatusUnlinked, StatusStuck, SendStatus,
                 StatusAnswered
  <2>. QED
    BY <1>8, <2>1
<1>11. ASSUME NEW i \in DOMAIN batch, MoveDeal(i) PROVE Kept
  BY <1>11, ElsewhereKeeps DEF MoveDeal, pollVars
<1>12. CASE UNCHANGED vars
  BY <1>8, <1>12 DEF vars
<1>. QED
  BY <1>1, <1>2, <1>3, <1>4, <1>5, <1>6, <1>7, <1>8, <1>9, <1>10, <1>11, <1>12
  DEF Next

------------------------------------------------------------------------------
(* The theorems *)

\* The invariant holds throughout, and so does what every step keeps.
THEOREM Progress == Spec => []ProgressInv /\ [][MovesForward /\ KeepsLinks]_vars
<1>1. Init => ProgressInv
  BY DEF Init, ProgressInv, RowsInv, PolledInv, PolledFresh
<1>2. ProgressInv /\ [Next]_vars => ProgressInv' /\ MovesForward /\ KeepsLinks
  BY StepKeeps DEF Kept
<1>. QED
  BY <1>1, <1>2, PTL DEF Spec

\* The copies a poll goes by are never stale in what the poll writes back.
THEOREM PollsGoByFreshRows == Spec => []PolledFresh
<1>1. ProgressInv => PolledFresh
  BY DEF ProgressInv
<1>. QED
  BY <1>1, Progress, PTL

\* Finished parcels stop being polled: their rows are final, and a poll holds
\* copies of rows that are not.
THEOREM FinishedStopPolling == Spec => []FinishedNotPolled
<1>1. ProgressInv => FinishedNotPolled
  <2>1. ASSUME ProgressInv, NEW n \in DOMAIN polled
        PROVE  ~Ended(polled[n].code)
    <3>1. /\ n \in DOMAIN ttns
          /\ polled[n].code = ttns[n].code
          /\ polled[n].final = ttns[n].final
          /\ polled[n].final = FALSE
      BY <2>1 DEF ProgressInv, PolledInv, PolledFresh
    <3>2. Finished(ttns[n])
      BY <2>1, <3>1 DEF ProgressInv, RowsInv
    <3>. QED
      BY <3>1, <3>2 DEF Finished
  <2>. QED
    BY <2>1 DEF FinishedNotPolled
<1>. QED
  BY <1>1, Progress, PTL

\* Parcels only move forward, whatever is answered and in whatever order polls,
\* handlers and aborts come.
THEOREM ParcelsMoveForward == Spec => ForwardOnly
  BY Progress, PTL DEF ForwardOnly

\* A parcel keeps its order and its deal once it has them.
THEOREM ParcelsKeepLinks == Spec => LinksAreKept
  BY Progress, PTL DEF LinksAreKept

------------------------------------------------------------------------------
(* The order of a poll *)

\* What Before needs of its table to be an order of the parcels.
TurnsInv ==
    /\ turns \in [Numbers -> Nat]
    /\ DOMAIN ttns \subseteq Numbers

\* The parcels of S that come before n.
Ahead(S, n) == {m \in S : Before(m, n)}

LEMMA BeforeOrders ==
    ASSUME TurnsInv
    PROVE  \A l, m, n \in Numbers :
              /\ ~Before(n, n)
              /\ Before(l, m) /\ Before(m, n) => Before(l, n)
              /\ m # n => Before(m, n) \/ Before(n, m)
<1> SUFFICES ASSUME NEW l \in Numbers, NEW m \in Numbers, NEW n \in Numbers
             PROVE  /\ ~Before(n, n)
                    /\ Before(l, m) /\ Before(m, n) => Before(l, n)
                    /\ m # n => Before(m, n) \/ Before(n, m)
  OBVIOUS
<1>1. /\ turns[l] \in Nat /\ turns[m] \in Nat /\ turns[n] \in Nat
      /\ l \in Nat /\ m \in Nat /\ n \in Nat
  BY TrackingAssumption DEF TurnsInv
<1>. QED
  BY <1>1 DEF Before

\* Places are below the number of parcels, and two parcels have two places.
LEMMA PlacesDiffer ==
    ASSUME TurnsInv, NEW S \in SUBSET Numbers
    PROVE  /\ IsFiniteSet(S) /\ Cardinality(S) \in Nat
           /\ \A n \in S : Place(S, n) \in 0 .. (Cardinality(S) - 1)
           /\ \A m, n \in S : Place(S, m) = Place(S, n) => m = n
<1>1. IsFiniteSet(S) /\ Cardinality(S) \in Nat
  BY TrackingAssumption, FS_Subset, FS_CardinalityType
<1>2. ASSUME NEW n \in S
      PROVE  /\ IsFiniteSet(Ahead(S, n)) /\ Place(S, n) = Cardinality(Ahead(S, n))
             /\ Place(S, n) \in 0 .. (Cardinality(S) - 1)
  <2>1. Ahead(S, n) \in SUBSET (S \ {n})
    BY <1>2, BeforeOrders DEF Ahead
  <2>2. IsFiniteSet(S \ {n}) /\ Cardinality(S \ {n}) = Cardinality(S) - 1
    BY <1>1, <1>2, FS_RemoveElement
  <2>3. /\ IsFiniteSet(Ahead(S, n))
        /\ Cardinality(Ahead(S, n)) <= Cardinality(S \ {n})
    BY <2>1, <2>2, FS_Subset
  <2>4. Cardinality(Ahead(S, n)) \in Nat
    BY <2>3, FS_CardinalityType
  <2>5. Place(S, n) = Cardinality(Ahead(S, n))
    BY DEF Place, Ahead
  <2>. QED
    BY <1>1, <2>2, <2>3, <2>4, <2>5
<1>3. ASSUME NEW m \in S, NEW n \in S, Before(m, n)
      PROVE  Place(S, m) # Place(S, n)
  <2>1. /\ Ahead(S, m) \in SUBSET Ahead(S, n)
        /\ m \in Ahead(S, n) /\ m \notin Ahead(S, m)
    BY <1>3, BeforeOrders DEF Ahead
  <2>2. IsFiniteSet(Ahead(S, n))
    BY <1>2
  <2>3. Cardinality(Ahead(S, n)) = Cardinality(Ahead(S, m))
           => Ahead(S, n) = Ahead(S, m)
    BY <2>1, <2>2, FS_Subset
  <2>. QED
    BY <1>2, <2>1, <2>3
<1>4. \A m, n \in S : Place(S, m) = Place(S, n) => m = n
  BY <1>3, BeforeOrders
<1>. QED
  BY <1>1, <1>2, <1>4

\* InTurn lists a set of parcels, each once.
Lists(s, S) ==
    /\ Cardinality(S) \in Nat
    /\ DOMAIN s = 1 .. Cardinality(S)
    /\ \A k \in DOMAIN s : s[k] \in S
    /\ \A j, k \in DOMAIN s : s[j] = s[k] => j = k
    /\ \A n \in S : \E k \in DOMAIN s : s[k] = n

LEMMA InTurnLists ==
    ASSUME TurnsInv, NEW S \in SUBSET Numbers
    PROVE  Lists(InTurn(S), S)
<1> DEFINE c == Cardinality(S)
           f == [n \in S |-> Place(S, n) + 1]
<1>1. /\ IsFiniteSet(S) /\ c \in Nat
      /\ \A n \in S : Place(S, n) \in 0 .. (c - 1)
      /\ \A m, n \in S : Place(S, m) = Place(S, n) => m = n
  BY PlacesDiffer
<1>2. f \in Injection(S, 1 .. c)
  BY <1>1 DEF Injection, IsInjective
<1>3. IsFiniteSet(1 .. c) /\ Cardinality(1 .. c) = c
  BY <1>1, FS_Interval
<1>4. f \in Surjection(S, 1 .. c)
  BY <1>1, <1>2, <1>3, FS_Injection
<1>5. ASSUME NEW k \in 1 .. c PROVE \E n \in S : Place(S, n) = k - 1
  <2>1. PICK n \in S : f[n] = k
    BY <1>4, <1>5 DEF Surjection
  <2>. QED
    BY <1>1, <1>5, <2>1
<1>6. PICK s : s = InTurn(S)
  OBVIOUS
<1>7. DOMAIN s = 1 .. c
  BY <1>6 DEF InTurn
<1>8. \A k \in 1 .. c : s[k] \in S /\ Place(S, s[k]) = k - 1
  BY <1>5, <1>6 DEF InTurn
<1>9. \A j, k \in 1 .. c : s[j] = s[k] => j = k
  BY <1>1, <1>8
<1>10. ASSUME NEW n \in S PROVE \E k \in 1 .. c : s[k] = n
  <2>1. Place(S, n) + 1 \in 1 .. c
    BY <1>1
  <2>2. Place(S, s[Place(S, n) + 1]) = Place(S, n)
    BY <1>1, <1>8, <2>1
  <2>. QED
    BY <1>1, <1>8, <2>1, <2>2
<1>. QED
  BY <1>1, <1>6, <1>7, <1>8, <1>9, <1>10 DEF Lists

------------------------------------------------------------------------------
(* The inductive invariant *)

Messages == sent \o toSend

StageRank(m) == CASE m.stage = "transit" -> 2
                  [] m.stage = "arrived" -> 6
                  [] OTHER               -> 8

\* A message is about a stage that its parcel has reached, and for the customer
\* that the parcel still belongs to.
MessageFits(m) ==
    /\ m.number \in DOMAIN ttns
    /\ StageRank(m) <= ttns[m.number].rank
    /\ m.to \in ExternalIds => ttns[m.number].ext = m.to

InOrder(s) ==
    \A j, k \in DOMAIN s :
        (j < k /\ s[j].number = s[k].number) => StageRank(s[j]) < StageRank(s[k])

\* Some message of s tells the stage that parcel n is at.
ToldOf(s, n) ==
    \E k \in DOMAIN s :
        s[k].number = n /\ s[k].stage = Stage(ttns[n].code)

WorthTelling(n) ==
    Stage(ttns[n].code) \in {"transit", "arrived", "received", "refused"}

Told == \A n \in DOMAIN ttns : WorthTelling(n) => ToldOf(Messages, n)

\* The lists of messages, and what there is in them.
MessagesInv ==
    /\ \E S : sent \in Seq(S) /\ toSend \in Seq(S)
    /\ \A k \in DOMAIN Messages : MessageFits(Messages[k])
    /\ InOrder(Messages)
    /\ spent.aborts = 0 => Told

\* The poll: messages wait only while it sends; it may know fewer links than the
\* table, never other ones; and a row's rank is that of its code.
PollInv ==
    /\ TurnsInv
    /\ poll = "sending" <=> toSend # <<>>
    /\ \A n \in DOMAIN polled :
          polled[n].ext # NoExt => ttns[n].ext = polled[n].ext
    /\ \A n \in DOMAIN ttns : ttns[n].rank = Rank(ttns[n].code)
    /\ spent \in [aborts : Nat, requeues : Nat, late : Nat]

\* A row of outbox, of which only the columns matter.
JobOK(job) ==
    job \in [key : {job.key}, kind : {job.kind}, payload : {job.payload},
             state : {job.state}, attempts : {job.attempts}, due : {job.due}]

CreateJob(i) ==
    /\ outbox[i].kind = "create_order"
    /\ \E ext \in ExternalIds : outbox[i].key = CreateKey(ext)

StatusJob(i) ==
    /\ outbox[i].kind = "status"
    /\ outbox[i].key = StatusKey(outbox[i].key[2], outbox[i].payload.status)
    /\ outbox[i].key[2] \in DOMAIN ttns
    /\ Rank(outbox[i].payload.status) <= ttns[outbox[i].key[2]].rank

JobsInv ==
    /\ \E S : outbox \in Seq(S)
    /\ \A i \in DOMAIN outbox : JobOK(outbox[i]) /\ (CreateJob(i) \/ StatusJob(i))
    /\ StagesHaveJobs

DeliveryInv == ProgressInv /\ PollInv /\ MessagesInv /\ JobsInv

------------------------------------------------------------------------------
(* What is told after a poll *)

\* The parcels that a poll tells of, the ones it moves, and with what.
NewsTold(got) == {n \in News(got) : Announced(n, got[n])}
NewsMoved(got) ==
    {n \in News(got) : got[n] \in Mapped /\ ~HasKey(outbox, StatusKey(n, got[n]))}
NoticeFor(n, got) ==
    [number |-> n, stage |-> Stage(got[n]), to |-> Recipient(n, got[n])]
StatusJobFor(n, got) ==
    NewJob(StatusKey(n, got[n]), "status",
           [ext |-> polled[n].ext, sd |-> polled[n].sd, status |-> got[n]])

LEMMA QueueNewsMeans ==
    ASSUME NEW got, QueueNews(got)
    PROVE  /\ outbox' = outbox \o [k \in DOMAIN InTurn(NewsMoved(got)) |->
                                      StatusJobFor(InTurn(NewsMoved(got))[k], got)]
           /\ toSend' = [k \in DOMAIN InTurn(NewsTold(got)) |->
                            NoticeFor(InTurn(NewsTold(got))[k], got)]
  BY DEF QueueNews, NewsMoved, NewsTold, NoticeFor, StatusJobFor

\* Answers for some of the parcels that were asked about.
Answers(got) == DOMAIN got \subseteq DOMAIN polled

\* A row after a poll: the code and rank that were answered, if they are news.
LEMMA RowPolled ==
    ASSUME ProgressInv, NEW got, Answers(got), PollStored(got),
           NEW n \in DOMAIN ttns
    PROVE  /\ DOMAIN ttns' = DOMAIN ttns
           /\ ttns'[n].ext = ttns[n].ext
           /\ n \in News(got) => /\ n \in DOMAIN polled
                                 /\ ttns'[n].code = got[n]
                                 /\ ttns'[n].rank = Rank(got[n])
                                 /\ Rank(got[n]) > ttns[n].rank
           /\ n \notin News(got) => /\ ttns'[n].code = ttns[n].code
                                    /\ ttns'[n].rank = ttns[n].rank
<1>1. RowOK(ttns[n])
  BY DEF ProgressInv, RowsInv
<1>2. DOMAIN ttns' = DOMAIN ttns
  BY DEF PollStored, WriteBack
<1>3. CASE n \notin DOMAIN polled
  BY <1>2, <1>3 DEF PollStored, WriteBack, News, Answers
<1>4. CASE n \in DOMAIN polled
  <2> DEFINE x == polled[n]
             news == n \in News(got)
             c == IF news THEN got[n] ELSE x.code
             k == IF news THEN Rank(got[n]) ELSE x.rank
  <2>1. RowOK(x) /\ x.code = ttns[n].code /\ x.rank = ttns[n].rank
    BY <1>4 DEF ProgressInv, PolledInv, PolledFresh
  <2>2. PICK p : p = PolledRow(n, got)
    OBVIOUS
  <2>3. p.code = c /\ p.rank = k
    BY <2>1, <2>2 DEF PolledRow, RowOK
  <2>4. ttns'[n] = UpdateTTN(ttns[n], p)
    BY <1>4, <2>2 DEF PollStored, WriteBack
  <2>5. ttns'[n].ext = ttns[n].ext /\ ttns'[n].code = c /\ ttns'[n].rank = k
    BY <1>1, <2>3, <2>4 DEF UpdateTTN, RowOK
  <2>6. news => Rank(got[n]) > x.rank
    BY DEF News, Forward
  <2>. QED
    BY <1>2, <1>4, <2>1, <2>5, <2>6
<1>. QED
  BY <1>3, <1>4

\* What a notice says: progress beyond what the row was at, to its own customer.
LEMMA NoticeSays ==
    ASSUME ProgressInv, PollInv, NEW got, Answers(got), NEW n \in NewsTold(got)
    PROVE  /\ n \in DOMAIN ttns /\ n \in Numbers /\ n \in News(got)
           /\ StageRank(NoticeFor(n, got)) <= Rank(got[n])
           /\ StageRank(NoticeFor(n, got)) > ttns[n].rank
           /\ NoticeFor(n, got).to \in ExternalIds
                 => ttns[n].ext = NoticeFor(n, got).to
<1>1. n \in DOMAIN got /\ n \in DOMAIN polled /\ n \in News(got)
  BY DEF NewsTold, News, Answers
<1>2. /\ n \in DOMAIN ttns /\ n \in Numbers /\ polled[n].rank = ttns[n].rank
      /\ ttns[n].rank \in Nat
  BY <1>1 DEF ProgressInv, RowsInv, RowOK, PolledFresh, PollInv, TurnsInv
<1>3. PICK m : m = NoticeFor(n, got)
  OBVIOUS
<1>4. m.stage = Stage(got[n]) /\ m.to = Recipient(n, got[n])
  BY <1>3 DEF NoticeFor
<1>5. Rank(got[n]) > ttns[n].rank /\ Announced(n, got[n])
  BY <1>1, <1>2 DEF NewsTold, News, Forward
<1>6. StageRank(m) <= Rank(got[n]) /\ StageRank(m) > ttns[n].rank
  <2>1. CASE Stage(got[n]) = "transit"
    <3>1. StageRank(m) = 2 /\ ttns[n].rank < 2
      BY <1>2, <1>4, <1>5, <2>1 DEF StageRank, Announced
    <3>2. got[n] \in {4, 5, 6, 101}
      BY <2>1 DEF Stage
    <3>3. Rank(got[n]) \in 2 .. 5
      BY <2>1, <3>2 DEF Rank
    <3>. QED
      BY <1>2, <3>1, <3>3
  <2>2. CASE Stage(got[n]) = "arrived"
    <3>1. got[n] \in {7, 8}
      BY <2>2 DEF Stage
    <3>2. Rank(got[n]) = 6
      BY <2>2, <3>1 DEF Rank
    <3>. QED
      BY <1>4, <1>5, <2>2, <3>2 DEF StageRank
  <2>3. CASE Stage(got[n]) \in {"received", "refused"}
    <3>1. got[n] \in {9, 10, 11} \cup (102 .. 108)
      BY <2>3 DEF Stage
    <3>2. Rank(got[n]) = 8
      BY <2>3, <3>1 DEF Rank
    <3>. QED
      BY <1>4, <1>5, <2>3, <3>2 DEF StageRank
  <2>. QED
    BY <1>5, <2>1, <2>2, <2>3 DEF Announced
<1>7. m.to \in ExternalIds => ttns[n].ext = m.to
  BY <1>1, <1>4, TrackingAssumption DEF Recipient, PollInv
<1>. QED
  BY <1>1, <1>2, <1>3, <1>6, <1>7

\* After a poll the messages are those sent before, then one per parcel told of.
LEMMA MessagesPolled ==
    ASSUME ProgressInv, PollInv, MessagesInv, NEW got, Answers(got),
           PollStored(got)
    PROVE  /\ \E S : sent' \in Seq(S) /\ toSend' \in Seq(S)
           /\ Messages = sent
           /\ Len(sent) \in Nat /\ DOMAIN sent = 1 .. Len(sent)
           /\ DOMAIN sent \subseteq DOMAIN Messages' /\ DOMAIN Messages' \subseteq Nat
           /\ \A k \in DOMAIN sent : Messages'[k] = sent[k]
           /\ \A k \in DOMAIN Messages' \ DOMAIN sent :
                 /\ k > Len(sent)
                 /\ \E n \in NewsTold(got) : Messages'[k] = NoticeFor(n, got)
           /\ \A j, k \in DOMAIN Messages' \ DOMAIN sent :
                 Messages'[j].number = Messages'[k].number => j = k
           /\ \A n \in NewsTold(got) :
                 \E k \in DOMAIN Messages' : Messages'[k] = NoticeFor(n, got)
<1> DEFINE told == InTurn(NewsTold(got))
           c == Cardinality(NewsTold(got))
<1>1. NewsTold(got) \in SUBSET Numbers
  BY NoticeSays
<1>2. Lists(told, NewsTold(got))
  BY <1>1, InTurnLists DEF PollInv
<1>3. c \in Nat /\ DOMAIN told = 1 .. c
  BY <1>2 DEF Lists
<1>4. sent' = sent /\ toSend' = [k \in 1 .. c |-> NoticeFor(told[k], got)]
  BY <1>3, QueueNewsMeans DEF PollStored
<1>5. PICK t : t = toSend'
  OBVIOUS
<1>6. PICK S : sent \in Seq(S) /\ toSend \in Seq(S)
  BY DEF MessagesInv
<1>7. toSend = <<>> /\ Messages = sent
  BY <1>6 DEF PollStored, PollInv, Messages
<1> DEFINE U == S \cup {NoticeFor(told[k], got) : k \in 1 .. c}
<1>8. sent \in Seq(U) /\ t \in Seq(U) /\ Len(t) = c
  <2>1. t \in [1 .. c -> U]
    BY <1>4, <1>5
  <2>2. t \in Seq(U) /\ Len(t) = c
    BY <1>3, <2>1
  <2>3. S \subseteq U
    OBVIOUS
  <2>. HIDE DEF U
  <2>4. sent \in [1 .. Len(sent) -> S] /\ Len(sent) \in Nat
    BY <1>6
  <2>5. sent \in [1 .. Len(sent) -> U]
    BY <2>3, <2>4
  <2>6. sent \in Seq(U)
    BY <2>4, <2>5
  <2>. QED
    BY <2>2, <2>6
<1>9. Messages' = sent \o t
  BY <1>4, <1>5 DEF Messages
<1>. HIDE DEF U, told, c
<1>10. PICK M : M = Messages'
  OBVIOUS
<1>11. /\ Len(sent) \in Nat /\ DOMAIN sent = 1 .. Len(sent)
       /\ DOMAIN M = 1 .. (Len(sent) + c)
       /\ \A k \in 1 .. Len(sent) : M[k] = sent[k]
       /\ \A k \in 1 .. c : M[Len(sent) + k] = NoticeFor(told[k], got)
  BY <1>3, <1>4, <1>5, <1>8, <1>9, <1>10
<1>12. ASSUME NEW k \in DOMAIN M, k \notin DOMAIN sent
       PROVE  /\ k > Len(sent) /\ k - Len(sent) \in 1 .. c
              /\ M[k] = NoticeFor(told[k - Len(sent)], got)
              /\ told[k - Len(sent)] \in NewsTold(got)
              /\ M[k].number = told[k - Len(sent)]
  <2>1. PICK p \in 1 .. c : k = Len(sent) + p
    <3>1. k - Len(sent) \in 1 .. c
      BY <1>3, <1>11, <1>12
    <3>. QED
      BY <1>11, <1>12, <3>1
  <2>2. p = k - Len(sent) /\ k > Len(sent)
    BY <1>11, <2>1
  <2>3. told[p] \in NewsTold(got)
    BY <1>2, <1>3, <2>1 DEF Lists
  <2>4. M[k] = NoticeFor(told[p], got)
    BY <1>11, <2>1
  <2>. QED
    BY <2>1, <2>2, <2>3, <2>4 DEF NoticeFor
<1>13. ASSUME NEW j \in DOMAIN M, NEW k \in DOMAIN M, j \notin DOMAIN sent,
              k \notin DOMAIN sent, M[j].number = M[k].number
       PROVE  j = k
  <2>1. j - Len(sent) = k - Len(sent)
    BY <1>2, <1>3, <1>12, <1>13 DEF Lists
  <2>. QED
    BY <1>11, <2>1
<1>14. ASSUME NEW n \in NewsTold(got)
       PROVE  \E k \in DOMAIN M : M[k] = NoticeFor(n, got)
  <2>1. PICK p \in 1 .. c : told[p] = n
    BY <1>2, <1>3, <1>14 DEF Lists
  <2>2. Len(sent) + p \in DOMAIN M
    BY <1>3, <1>11, <2>1
  <2>. QED
    BY <1>11, <2>1, <2>2
<1>15. \E V : sent' \in Seq(V) /\ toSend' \in Seq(V)
  BY <1>4, <1>5, <1>8
<1>16. /\ DOMAIN sent \subseteq DOMAIN M /\ DOMAIN M \subseteq Nat
       /\ \A k \in DOMAIN sent : M[k] = sent[k]
  BY <1>3, <1>11
<1>17. \A k \in DOMAIN M \ DOMAIN sent :
          k > Len(sent) /\ \E n \in NewsTold(got) : M[k] = NoticeFor(n, got)
  BY <1>12
<1>18. \A j, k \in DOMAIN M \ DOMAIN sent : M[j].number = M[k].number => j = k
  BY <1>13
<1>19. \A n \in NewsTold(got) : \E k \in DOMAIN M : M[k] = NoticeFor(n, got)
  BY <1>14
<1>20. Len(sent) \in Nat /\ DOMAIN sent = 1 .. Len(sent)
  BY <1>11
<1>. QED
  BY ONLY <1>7, <1>10, <1>15, <1>16, <1>17, <1>18, <1>19, <1>20

\* A rank below that of arrival, and one that a stage on the way has.
LEMMA RanksOnTheWay ==
    ASSUME NEW code
    PROVE  /\ Stage(code) = "transit" => Rank(code) \in 2 .. 5
           /\ Rank(code) \in 2 .. 5 => Stage(code) = "transit"
<1>1. ASSUME Stage(code) = "transit" PROVE Rank(code) \in 2 .. 5
  <2>1. code \in {4, 5, 6, 101}
    BY <1>1 DEF Stage
  <2>. QED
    BY <1>1, <2>1 DEF Rank
<1>2. ASSUME Rank(code) \in 2 .. 5 PROVE Stage(code) = "transit"
  <2>1. code \in {4, 5, 6, 101}
    BY <1>2 DEF Rank
  <2>. QED
    BY <2>1 DEF Stage
<1>. QED
  BY <1>1, <1>2

\* The second transaction of a poll tells what it writes, and in order.
LEMMA PollStoredMessages ==
    ASSUME ProgressInv, PollInv, MessagesInv, NEW got, Answers(got),
           PollStored(got)
    PROVE  MessagesInv'
<1>1. PICK M : M = Messages'
  OBVIOUS
<1>2. /\ \E S : sent' \in Seq(S) /\ toSend' \in Seq(S)
      /\ Messages = sent
      /\ Len(sent) \in Nat /\ DOMAIN sent = 1 .. Len(sent)
      /\ DOMAIN sent \subseteq DOMAIN M /\ DOMAIN M \subseteq Nat
      /\ \A k \in DOMAIN sent : M[k] = sent[k]
      /\ \A k \in DOMAIN M \ DOMAIN sent :
            /\ k > Len(sent)
            /\ \E n \in NewsTold(got) : M[k] = NoticeFor(n, got)
      /\ \A j, k \in DOMAIN M \ DOMAIN sent : M[j].number = M[k].number => j = k
      /\ \A n \in NewsTold(got) : \E k \in DOMAIN M : M[k] = NoticeFor(n, got)
  BY <1>1, MessagesPolled
<1>3. ASSUME NEW n \in DOMAIN ttns
      PROVE  /\ DOMAIN ttns' = DOMAIN ttns
             /\ ttns'[n].ext = ttns[n].ext
             /\ ttns[n].rank \in Nat /\ ttns'[n].rank \in Nat
             /\ ttns'[n].rank >= ttns[n].rank
             /\ n \in News(got) => /\ n \in DOMAIN polled
                                   /\ polled[n].rank = ttns[n].rank
                                   /\ ttns'[n].code = got[n]
                                   /\ ttns'[n].rank = Rank(got[n])
             /\ n \notin News(got) => ttns'[n].code = ttns[n].code
  <2>1. ttns[n].rank \in Nat
    BY DEF ProgressInv, RowsInv, RowOK
  <2>. QED
    BY <2>1, RowPolled, RankNat DEF ProgressInv, PolledFresh
<1>4. ASSUME NEW k \in DOMAIN sent
      PROVE  /\ sent[k].number \in DOMAIN ttns
             /\ StageRank(sent[k]) <= ttns[sent[k].number].rank
             /\ StageRank(sent[k]) \in Nat
             /\ sent[k].to \in ExternalIds
                   => ttns[sent[k].number].ext = sent[k].to
  BY <1>2 DEF MessagesInv, MessageFits, StageRank
<1>5. ASSUME NEW k \in DOMAIN M, k \notin DOMAIN sent
      PROVE  /\ M[k].number \in DOMAIN ttns
             /\ StageRank(M[k]) \in Nat
             /\ StageRank(M[k]) <= ttns'[M[k].number].rank
             /\ StageRank(M[k]) > ttns[M[k].number].rank
             /\ M[k].to \in ExternalIds => ttns[M[k].number].ext = M[k].to
  <2>1. PICK n \in NewsTold(got) : M[k] = NoticeFor(n, got)
    BY <1>2, <1>5
  <2>2. M[k].number = n
    BY <2>1 DEF NoticeFor
  <2>3. /\ n \in DOMAIN ttns /\ n \in News(got)
        /\ StageRank(M[k]) <= Rank(got[n])
        /\ StageRank(M[k]) > ttns[n].rank
        /\ M[k].to \in ExternalIds => ttns[n].ext = M[k].to
    BY <2>1, NoticeSays
  <2>4. StageRank(M[k]) \in Nat
    BY DEF StageRank
  <2>. QED
    BY <1>3, <2>2, <2>3, <2>4
<1>6. ASSUME NEW k \in DOMAIN M PROVE MessageFits(M[k])'
  <2>1. CASE k \in DOMAIN sent
    <3>1. StageRank(M[k]) <= ttns'[M[k].number].rank
      BY <1>2, <1>3, <1>4, <2>1
    <3>. QED
      BY <1>2, <1>3, <1>4, <2>1, <3>1 DEF MessageFits, StageRank
  <2>2. CASE k \notin DOMAIN sent
    BY <1>3, <1>5, <2>2 DEF MessageFits, StageRank
  <2>. QED
    BY <2>1, <2>2
<1>7. InOrder(M)
  <2> SUFFICES ASSUME NEW j \in DOMAIN M, NEW k \in DOMAIN M, j < k,
                      M[j].number = M[k].number
               PROVE  StageRank(M[j]) < StageRank(M[k])
    BY DEF InOrder
  <2>1. CASE j \in DOMAIN sent /\ k \in DOMAIN sent
    BY <1>2, <2>1 DEF MessagesInv, InOrder
  <2>2. CASE j \in DOMAIN sent /\ k \notin DOMAIN sent
    <3>1. M[j] = sent[j] /\ ttns[M[k].number].rank \in Nat
      BY <1>2, <1>3, <1>5, <2>2
    <3>. QED
      BY <1>4, <1>5, <2>2, <3>1
  <2>3. CASE j \notin DOMAIN sent /\ k \in DOMAIN sent
    <3>1. j > Len(sent) /\ k \in 1 .. Len(sent)
      BY <1>2, <2>3
    <3>. QED
      BY <1>2, <3>1
  <2>4. CASE j \notin DOMAIN sent /\ k \notin DOMAIN sent
    BY <1>2, <2>4
  <2>. QED
    BY <2>1, <2>2, <2>3, <2>4
<1>8. ASSUME spent.aborts = 0, NEW n \in DOMAIN ttns, WorthTelling(n)'
      PROVE  \E k \in DOMAIN M : M[k].number = n /\ M[k].stage = Stage(ttns'[n].code)
  <2>1. CASE n \in NewsTold(got)
    BY <1>2, <1>3, <2>1 DEF NewsTold, NoticeFor
  <2>2. ASSUME WorthTelling(n), Stage(ttns'[n].code) = Stage(ttns[n].code)
        PROVE  \E k \in DOMAIN M :
                  M[k].number = n /\ M[k].stage = Stage(ttns'[n].code)
    <3>1. PICK k \in DOMAIN sent :
                  sent[k].number = n /\ sent[k].stage = Stage(ttns[n].code)
      BY <1>2, <1>8, <2>2 DEF MessagesInv, Told, ToldOf
    <3>. QED
      BY <1>2, <2>2, <3>1
  <2>3. CASE n \notin News(got)
    BY <1>3, <1>8, <2>2, <2>3 DEF WorthTelling
  <2>4. CASE n \in News(got) /\ n \notin NewsTold(got)
    <3>1. Stage(got[n]) = "transit" /\ ~(polled[n].rank < 2)
      BY <1>3, <1>8, <2>4 DEF NewsTold, Announced, WorthTelling
    <3>2. Rank(got[n]) \in 2 .. 5 /\ ttns[n].rank < Rank(got[n])
      BY <3>1, <2>4, RanksOnTheWay, RowPolled
    <3>3. ttns[n].rank \in 2 .. 5 /\ ttns[n].rank = Rank(ttns[n].code)
      BY <1>3, <2>4, <3>1, <3>2 DEF PollInv
    <3>4. Stage(ttns[n].code) = "transit"
      BY <3>3, RanksOnTheWay
    <3>. QED
      BY <1>3, <2>2, <2>4, <3>1, <3>4 DEF WorthTelling
  <2>. QED
    BY <2>1, <2>3, <2>4
<1>9. spent' = spent /\ DOMAIN ttns' = DOMAIN ttns
  BY DEF PollStored, WriteBack
<1>10. spent'.aborts = 0 => Told'
  BY <1>1, <1>8, <1>9 DEF Told, ToldOf
<1>11. \A k \in DOMAIN Messages' : MessageFits(Messages[k])'
  BY <1>1, <1>6
<1>12. InOrder(Messages')
  BY <1>1, <1>7
<1>. QED
  BY <1>2, <1>10, <1>11, <1>12 DEF MessagesInv, InOrder, StageRank

\* After a poll the jobs are the old ones, then one per parcel it moves.
LEMMA JobsPolled ==
    ASSUME ProgressInv, PollInv, JobsInv, NEW got, Answers(got), PollStored(got)
    PROVE  /\ \E S : outbox' \in Seq(S)
           /\ Len(outbox) \in Nat /\ DOMAIN outbox = 1 .. Len(outbox)
           /\ DOMAIN outbox \subseteq DOMAIN outbox' /\ DOMAIN outbox' \subseteq Nat
           /\ \A k \in DOMAIN outbox : outbox'[k] = outbox[k]
           /\ \A k \in DOMAIN outbox' \ DOMAIN outbox :
                 /\ k > Len(outbox)
                 /\ \E n \in NewsMoved(got) : outbox'[k] = StatusJobFor(n, got)
           /\ \A j, k \in DOMAIN outbox' \ DOMAIN outbox :
                 outbox'[j].key[2] = outbox'[k].key[2] => j = k
           /\ \A n \in NewsMoved(got) :
                 \E k \in DOMAIN outbox' : outbox'[k] = StatusJobFor(n, got)
<1> DEFINE moved == InTurn(NewsMoved(got))
           c == Cardinality(NewsMoved(got))
<1>1. NewsMoved(got) \in SUBSET Numbers
  BY DEF NewsMoved, News, Answers, ProgressInv, PolledFresh, PollInv, TurnsInv
<1>2. Lists(moved, NewsMoved(got))
  BY <1>1, InTurnLists DEF PollInv
<1>3. c \in Nat /\ DOMAIN moved = 1 .. c
  BY <1>2 DEF Lists
<1> DEFINE t == [k \in 1 .. c |-> StatusJobFor(moved[k], got)]
<1>4. outbox' = outbox \o t
  BY <1>3, QueueNewsMeans DEF PollStored
<1>5. PICK S : outbox \in Seq(S)
  BY DEF JobsInv
<1> DEFINE U == S \cup {StatusJobFor(moved[k], got) : k \in 1 .. c}
<1>6. outbox \in Seq(U) /\ t \in Seq(U) /\ Len(t) = c
  <2>1. t \in [1 .. c -> U]
    OBVIOUS
  <2>2. t \in Seq(U) /\ Len(t) = c
    BY <1>3, <2>1
  <2>3. S \subseteq U
    OBVIOUS
  <2>. HIDE DEF U
  <2>4. outbox \in [1 .. Len(outbox) -> S] /\ Len(outbox) \in Nat
    BY <1>5
  <2>5. outbox \in [1 .. Len(outbox) -> U]
    BY <2>3, <2>4
  <2>6. outbox \in Seq(U)
    BY <2>4, <2>5
  <2>. QED
    BY <2>2, <2>6
<1>7. \A k \in 1 .. c : t[k] = StatusJobFor(moved[k], got)
  OBVIOUS
<1>8. PICK M : M = outbox'
  OBVIOUS
<1>. HIDE DEF U, moved, c, t
<1>9. /\ Len(outbox) \in Nat /\ DOMAIN outbox = 1 .. Len(outbox)
      /\ DOMAIN M = 1 .. (Len(outbox) + c)
      /\ \A k \in 1 .. Len(outbox) : M[k] = outbox[k]
      /\ \A k \in 1 .. c : M[Len(outbox) + k] = StatusJobFor(moved[k], got)
      /\ M \in Seq(U)
  <2>1. M = outbox \o t
    BY <1>4, <1>8
  <2>2. M \in Seq(U)
    BY <1>6, <2>1
  <2>3. Len(outbox) \in Nat /\ DOMAIN outbox = 1 .. Len(outbox)
    BY <1>6
  <2>4. Len(M) = Len(outbox) + c /\ DOMAIN M = 1 .. (Len(outbox) + c)
    <3>1. Len(M) = Len(outbox) + Len(t)
      BY <1>6, <2>1
    <3>2. DOMAIN M = 1 .. Len(M)
      BY <2>2
    <3>. QED
      BY <1>6, <3>1, <3>2
  <2>5. \A k \in 1 .. Len(outbox) : M[k] = outbox[k]
    BY <1>3, <1>6, <2>1
  <2>6. \A k \in 1 .. c : M[Len(outbox) + k] = t[k]
    BY <1>3, <1>6, <2>1
  <2>. QED
    BY <1>7, <2>2, <2>3, <2>4, <2>5, <2>6
<1>10. \A n : StatusJobFor(n, got).key[2] = n
  BY DEF StatusJobFor, NewJob, StatusKey
<1>11. ASSUME NEW k \in DOMAIN M, k \notin DOMAIN outbox
       PROVE  /\ k > Len(outbox) /\ k - Len(outbox) \in 1 .. c
              /\ M[k] = StatusJobFor(moved[k - Len(outbox)], got)
              /\ moved[k - Len(outbox)] \in NewsMoved(got)
              /\ M[k].key[2] = moved[k - Len(outbox)]
  <2>1. PICK p \in 1 .. c : k = Len(outbox) + p
    <3>1. k - Len(outbox) \in 1 .. c
      BY <1>3, <1>9, <1>11
    <3>. QED
      BY <1>9, <1>11, <3>1
  <2>2. p = k - Len(outbox) /\ k > Len(outbox)
    BY <1>9, <2>1
  <2>3. moved[p] \in NewsMoved(got)
    BY <1>2, <1>3, <2>1 DEF Lists
  <2>4. M[k] = StatusJobFor(moved[p], got)
    BY <1>9, <2>1
  <2>. QED
    BY <1>10, <2>1, <2>2, <2>3, <2>4
<1>12. ASSUME NEW j \in DOMAIN M, NEW k \in DOMAIN M, j \notin DOMAIN outbox,
              k \notin DOMAIN outbox, M[j].key[2] = M[k].key[2]
       PROVE  j = k
  <2>1. j - Len(outbox) = k - Len(outbox)
    BY <1>2, <1>3, <1>11, <1>12 DEF Lists
  <2>. QED
    BY <1>9, <2>1
<1>13. ASSUME NEW n \in NewsMoved(got)
       PROVE  \E k \in DOMAIN M : M[k] = StatusJobFor(n, got)
  <2>1. PICK p \in 1 .. c : moved[p] = n
    BY <1>2, <1>3, <1>13 DEF Lists
  <2>2. Len(outbox) + p \in DOMAIN M
    BY <1>3, <1>9, <2>1
  <2>. QED
    BY <1>9, <2>1, <2>2
<1>14. /\ DOMAIN outbox \subseteq DOMAIN M /\ DOMAIN M \subseteq Nat
       /\ \A k \in DOMAIN outbox : M[k] = outbox[k]
  BY <1>3, <1>9
<1>15. \A k \in DOMAIN M \ DOMAIN outbox :
          k > Len(outbox) /\ \E n \in NewsMoved(got) : M[k] = StatusJobFor(n, got)
  BY <1>11
<1>16. \A j, k \in DOMAIN M \ DOMAIN outbox : M[j].key[2] = M[k].key[2] => j = k
  BY <1>12
<1>17. \A n \in NewsMoved(got) : \E k \in DOMAIN M : M[k] = StatusJobFor(n, got)
  BY <1>13
<1>18. /\ \E V : outbox' \in Seq(V)
       /\ Len(outbox) \in Nat /\ DOMAIN outbox = 1 .. Len(outbox)
  BY <1>8, <1>9
<1>. QED
  BY ONLY <1>8, <1>14, <1>15, <1>16, <1>17, <1>18

\* A job of a parcel's status.
StatusOf(i, n) == outbox[i].kind = "status" /\ outbox[i].key[2] = n

\* StagesHaveJobs, by its two halves.
StageQueued ==
    \A n \in DOMAIN ttns :
        ttns[n].rank > 0 /\ ttns[n].code \in Mapped =>
            \E i \in DOMAIN outbox :
                StatusOf(i, n) /\ outbox[i].payload.status = ttns[n].code

StagesInOrder ==
    \A n \in DOMAIN ttns : \A i, j \in DOMAIN outbox :
        (StatusOf(i, n) /\ StatusOf(j, n) /\ i < j)
            => Rank(outbox[i].payload.status) < Rank(outbox[j].payload.status)

LEMMA HavingJobs == StagesHaveJobs <=> StageQueued /\ StagesInOrder
  BY DEF StagesHaveJobs, StageQueued, StagesInOrder, StatusOf

\* A poll queues what it writes, behind everything queued before.
LEMMA PollStoredJobs ==
    ASSUME ProgressInv, PollInv, JobsInv, NEW got, Answers(got), PollStored(got)
    PROVE  JobsInv'
<1>1. PICK M : M = outbox'
  OBVIOUS
<1>2. /\ \E S : outbox' \in Seq(S)
      /\ Len(outbox) \in Nat /\ DOMAIN outbox = 1 .. Len(outbox)
      /\ DOMAIN outbox \subseteq DOMAIN M /\ DOMAIN M \subseteq Nat
      /\ \A k \in DOMAIN outbox : M[k] = outbox[k]
      /\ \A k \in DOMAIN M \ DOMAIN outbox :
            /\ k > Len(outbox)
            /\ \E n \in NewsMoved(got) : M[k] = StatusJobFor(n, got)
      /\ \A j, k \in DOMAIN M \ DOMAIN outbox : M[j].key[2] = M[k].key[2] => j = k
      /\ \A n \in NewsMoved(got) : \E k \in DOMAIN M : M[k] = StatusJobFor(n, got)
  BY <1>1, JobsPolled
<1>3. ASSUME NEW n \in DOMAIN ttns
      PROVE  /\ DOMAIN ttns' = DOMAIN ttns
             /\ ttns[n].rank \in Nat /\ ttns'[n].rank \in Nat
             /\ ttns'[n].rank >= ttns[n].rank
             /\ n \in News(got) => /\ ttns'[n].code = got[n]
                                   /\ ttns'[n].rank = Rank(got[n])
                                   /\ ttns'[n].rank > ttns[n].rank
             /\ n \notin News(got) => /\ ttns'[n].code = ttns[n].code
                                      /\ ttns'[n].rank = ttns[n].rank
  <2>1. ttns[n].rank \in Nat
    BY DEF ProgressInv, RowsInv, RowOK
  <2>. QED
    BY <2>1, RowPolled, RankNat
<1>4. ASSUME NEW n \in NewsMoved(got), NEW k \in DOMAIN M, M[k] = StatusJobFor(n, got)
      PROVE  /\ n \in DOMAIN ttns /\ n \in News(got)
             /\ JobOK(M[k]) /\ M[k].kind = "status"
             /\ M[k].key = StatusKey(n, got[n]) /\ M[k].key[2] = n
             /\ M[k].payload.status = got[n]
  <2>1. n \in DOMAIN ttns /\ n \in News(got)
    BY DEF NewsMoved, News, Answers, ProgressInv, PolledFresh
  <2>. QED
    BY <1>4, <2>1 DEF StatusJobFor, NewJob, StatusKey, JobOK
<1>5. ASSUME NEW k \in DOMAIN outbox
      PROVE  JobOK(outbox[k]) /\ (CreateJob(k) \/ StatusJob(k))
  BY DEF JobsInv
<1>6. \A k \in DOMAIN M : JobOK(M[k]) /\ (CreateJob(k) \/ StatusJob(k))'
  <2> SUFFICES ASSUME NEW k \in DOMAIN M
               PROVE  JobOK(M[k]) /\ (CreateJob(k) \/ StatusJob(k))'
    OBVIOUS
  <2>1. CASE k \in DOMAIN outbox
    <3>1. M[k] = outbox[k] /\ outbox'[k] = outbox[k]
      BY <1>1, <1>2, <2>1
    <3>2. CASE CreateJob(k)
      BY <1>5, <2>1, <3>1, <3>2 DEF CreateJob
    <3>3. CASE StatusJob(k)
      <4>1. /\ outbox[k].key[2] \in DOMAIN ttns
            /\ Rank(outbox[k].payload.status) <= ttns[outbox[k].key[2]].rank
        BY <3>3 DEF StatusJob
      <4>2. Rank(outbox[k].payload.status) <= ttns'[outbox[k].key[2]].rank
        BY <1>3, <4>1, RankNat
      <4>. QED
        BY <1>3, <1>5, <2>1, <3>1, <3>3, <4>1, <4>2 DEF StatusJob
    <3>. QED
      BY <1>5, <2>1, <3>2, <3>3
  <2>2. CASE k \notin DOMAIN outbox
    <3>1. PICK n \in NewsMoved(got) : M[k] = StatusJobFor(n, got)
      BY <1>2, <2>2
    <3>2. Rank(got[n]) <= ttns'[n].rank
      BY <1>3, <1>4, <3>1
    <3>. QED
      BY <1>1, <1>3, <1>4, <3>1, <3>2 DEF StatusJob
  <2>. QED
    BY <2>1, <2>2
<1>7. StageQueued /\ StagesInOrder
  BY HavingJobs DEF JobsInv
<1>8. ASSUME NEW n \in DOMAIN ttns, ttns'[n].rank > 0, ttns'[n].code \in Mapped
      PROVE  \E i \in DOMAIN M : /\ M[i].kind = "status" /\ M[i].key[2] = n
                                 /\ M[i].payload.status = ttns'[n].code
  <2>1. CASE n \in NewsMoved(got)
    BY <1>2, <1>3, <1>4, <2>1
  <2>2. CASE n \in News(got) /\ n \notin NewsMoved(got)
    <3>1. PICK i \in DOMAIN outbox : outbox[i].key = StatusKey(n, got[n])
      BY <1>3, <1>8, <2>2 DEF NewsMoved, HasKey
    <3>2. StatusJob(i)
      BY <1>5, <3>1 DEF CreateJob, CreateKey, StatusKey
    <3>3. outbox[i].key[2] = n /\ outbox[i].payload.status = got[n]
      BY <3>1, <3>2 DEF StatusJob, StatusKey
    <3>. QED
      BY <1>2, <1>3, <2>2, <3>2, <3>3 DEF StatusJob
  <2>3. CASE n \notin News(got)
    <3>1. PICK i \in DOMAIN outbox :
              StatusOf(i, n) /\ outbox[i].payload.status = ttns[n].code
      BY <1>3, <1>7, <1>8, <2>3 DEF StageQueued
    <3>. QED
      BY <1>2, <1>3, <2>3, <3>1 DEF StatusOf
  <2>. QED
    BY <2>1, <2>2, <2>3
<1>9. ASSUME NEW i \in DOMAIN M, NEW j \in DOMAIN M, i < j,
             M[i].kind = "status", M[j].kind = "status", M[i].key[2] = M[j].key[2],
             M[i].key[2] \in DOMAIN ttns
      PROVE  Rank(M[i].payload.status) < Rank(M[j].payload.status)
  <2> DEFINE n == M[i].key[2]
  <2>1. CASE j \in DOMAIN outbox
    <3>1. i \in DOMAIN outbox
      BY <1>2, <1>9, <2>1
    <3>. QED
      BY <1>2, <1>7, <1>9, <2>1, <3>1 DEF StagesInOrder, StatusOf
  <2>2. CASE j \notin DOMAIN outbox /\ i \in DOMAIN outbox
    <3>1. PICK m \in NewsMoved(got) : M[j] = StatusJobFor(m, got)
      BY <1>2, <2>2
    <3>2. /\ M[j].payload.status = got[m] /\ m = n /\ n \in News(got)
      BY <1>4, <1>9, <3>1
    <3>3. Rank(M[j].payload.status) > ttns[n].rank
      BY <1>3, <1>9, <3>2
    <3>4. StatusJob(i)
      BY <1>2, <1>5, <1>9, <2>2 DEF CreateJob
    <3>5. Rank(M[i].payload.status) <= ttns[n].rank
      BY <1>2, <2>2, <3>4 DEF StatusJob
    <3>6. ttns[n].rank \in Nat
      BY <1>3, <1>9
    <3>. QED
      BY <3>3, <3>5, <3>6, RankNat
  <2>3. CASE j \notin DOMAIN outbox /\ i \notin DOMAIN outbox
    BY <1>2, <1>9, <2>3
  <2>. QED
    BY <2>1, <2>2, <2>3
<1>10. DOMAIN ttns' = DOMAIN ttns
  BY DEF PollStored, WriteBack
<1>11. StageQueued' /\ StagesInOrder'
  BY <1>1, <1>8, <1>9, <1>10 DEF StageQueued, StagesInOrder, StatusOf
<1>12. StagesHaveJobs'
  BY <1>11, HavingJobs, PTL
<1>. QED
  BY <1>1, <1>2, <1>6, <1>12 DEF JobsInv

------------------------------------------------------------------------------
(* Steps besides those that tell *)

\* The old jobs stay what they are about; new ones are creates.
JobsAside ==
    /\ \E S : outbox' \in Seq(S)
    /\ DOMAIN outbox \subseteq DOMAIN outbox'
    /\ \A k \in DOMAIN outbox : /\ JobOK(outbox'[k])
                                /\ outbox'[k].key = outbox[k].key
                                /\ outbox'[k].kind = outbox[k].kind
                                /\ outbox'[k].payload = outbox[k].payload
    /\ \A k \in DOMAIN outbox' \ DOMAIN outbox : JobOK(outbox'[k]) /\ CreateJob(k)'

Written(i, s, a, d) ==
    outbox' = [outbox EXCEPT ![i] = [@ EXCEPT !.state = s, !.attempts = a,
                                              !.due = d]]

LEMMA SameJobsAside == ASSUME JobsInv, outbox' = outbox PROVE JobsAside
  BY DEF JobsInv, JobsAside

LEMMA WrittenAside ==
    ASSUME JobsInv, NEW i, NEW s, NEW a, NEW d, Written(i, s, a, d)
    PROVE  JobsAside
<1> DEFINE job == [outbox[i] EXCEPT !.state = s, !.attempts = a, !.due = d]
<1>1. outbox' = [outbox EXCEPT ![i] = job]
  BY DEF Written
<1>2. PICK S : outbox \in Seq(S)
  BY DEF JobsInv
<1>3. CASE i \notin DOMAIN outbox
  <2>1. outbox' = outbox
    BY <1>1, <1>2, <1>3
  <2>. QED
    BY <2>1, SameJobsAside
<1>4. CASE i \in DOMAIN outbox
  <2>1. JobOK(outbox[i])
    BY <1>4 DEF JobsInv
  <2>2. /\ JobOK(job) /\ job.key = outbox[i].key /\ job.kind = outbox[i].kind
        /\ job.payload = outbox[i].payload
    BY <2>1 DEF JobOK
  <2>. HIDE DEF job
  <2>3. PICK r : r = job
    OBVIOUS
  <2>4. outbox' \in Seq(S \cup {r}) /\ DOMAIN outbox' = DOMAIN outbox
    <3>1. outbox \in [1 .. Len(outbox) -> S] /\ Len(outbox) \in Nat
      BY <1>2
    <3>2. outbox' \in [1 .. Len(outbox) -> S \cup {r}]
      BY <1>1, <2>3, <3>1
    <3>. QED
      BY <3>1, <3>2
  <2>5. \A k \in DOMAIN outbox : outbox'[k] = IF k = i THEN job ELSE outbox[k]
    BY <1>1, <1>2
  <2>6. \A k \in DOMAIN outbox : JobOK(outbox[k])
    BY DEF JobsInv
  <2>. QED
    BY <2>2, <2>4, <2>5, <2>6 DEF JobsAside
<1>. QED
  BY <1>3, <1>4

LEMMA UpdateAside ==
    ASSUME JobsInv, NEW i, NEW job, outbox' = UpdateJob(outbox, i, job)
    PROVE  JobsAside
<1>1. Written(i, job.state, job.attempts, job.due)
  BY DEF UpdateJob, Written
<1>. QED
  BY <1>1, WrittenAside

LEMMA OutcomeAside ==
    ASSUME JobsInv, NEW i, Finish(i) \/ Fail(i) \/ Retry(i)
    PROVE  JobsAside
<1>1. PICK job : outbox' = UpdateJob(outbox, i, job)
  BY DEF Finish, Fail, Retry
<1>. QED
  BY <1>1, UpdateAside

\* The clock and an operator write one row.
LEMMA RowAside ==
    ASSUME JobsInv, NEW i \in DOMAIN outbox, BackoffElapses(i) \/ Requeue(i)
    PROVE  JobsAside
<1>1. JobOK(outbox[i])
  BY DEF JobsInv
<1>2. CASE BackoffElapses(i)
  <2>1. Written(i, outbox[i].state, outbox[i].attempts, TRUE)
    BY <1>1, <1>2 DEF BackoffElapses, Written, JobOK
  <2>. QED
    BY <2>1, WrittenAside
<1>3. CASE Requeue(i) /\ outbox[i].state = "failed"
  <2>1. Written(i, "pending", 0, TRUE)
    BY <1>3 DEF Requeue, RequeueJob, Written
  <2>. QED
    BY <2>1, WrittenAside
<1>4. CASE Requeue(i) /\ outbox[i].state # "failed"
  BY <1>4, SameJobsAside DEF Requeue, RequeueJob
<1>. QED
  BY <1>2, <1>3, <1>4

LEMMA EnqueueAside ==
    ASSUME JobsInv, NEW ext \in ExternalIds, outbox' = EnqueueCreate(outbox, ext)
    PROVE  JobsAside
<1> DEFINE job == NewJob(CreateKey(ext), "create_order", [ext |-> ext])
<1>1. CASE outbox' = outbox
  BY <1>1, SameJobsAside
<1>2. CASE outbox' = Append(outbox, job)
  <2>1. JobOK(job) /\ job.kind = "create_order" /\ job.key = CreateKey(ext)
    BY DEF NewJob, JobOK
  <2>2. PICK S : outbox \in Seq(S)
    BY DEF JobsInv
  <2>. HIDE DEF job
  <2>3. PICK r : r = job
    OBVIOUS
  <2>4. outbox \in Seq(S \cup {r})
    <3>1. outbox \in [1 .. Len(outbox) -> S \cup {r}] /\ Len(outbox) \in Nat
      BY <2>2
    <3>. QED
      BY <3>1
  <2>5. /\ outbox' \in Seq(S \cup {r})
        /\ DOMAIN outbox \subseteq DOMAIN outbox'
        /\ \A k \in DOMAIN outbox : outbox'[k] = outbox[k]
        /\ \A k \in DOMAIN outbox' \ DOMAIN outbox : outbox'[k] = job
    BY <1>2, <2>3, <2>4
  <2>6. \A k \in DOMAIN outbox : JobOK(outbox[k])
    BY DEF JobsInv
  <2>7. ASSUME NEW k \in DOMAIN outbox', k \notin DOMAIN outbox
        PROVE  JobOK(outbox'[k]) /\ CreateJob(k)'
    BY <2>1, <2>5, <2>7 DEF CreateJob
  <2>. QED
    BY <2>5, <2>6, <2>7 DEF JobsAside
<1>. QED
  BY <1>1, <1>2 DEF EnqueueCreate, Enqueue

\* Such a step keeps what the jobs say of the parcels.
LEMMA JobsAsideKeeps ==
    ASSUME ProgressInv, JobsInv, JobsAside, Grows,
           \A n \in DOMAIN ttns' \ DOMAIN ttns : ttns'[n].rank = 0
    PROVE  JobsInv'
<1>1. \A k \in DOMAIN outbox : JobOK(outbox[k]) /\ (CreateJob(k) \/ StatusJob(k))
  BY DEF JobsInv
<1>2. StageQueued /\ StagesInOrder
  BY HavingJobs DEF JobsInv
<1>3. \A n \in DOMAIN ttns : /\ n \in DOMAIN ttns'
                             /\ ttns'[n].code = ttns[n].code
                             /\ ttns'[n].rank = ttns[n].rank
  BY DEF Grows, SameProgress
<1>4. ASSUME NEW k \in DOMAIN outbox'
      PROVE  JobOK(outbox'[k]) /\ (CreateJob(k)' \/ StatusJob(k)')
  <2>1. CASE k \notin DOMAIN outbox
    BY <1>4, <2>1 DEF JobsAside
  <2>2. CASE k \in DOMAIN outbox /\ CreateJob(k)
    BY <2>2 DEF JobsAside, CreateJob
  <2>3. CASE k \in DOMAIN outbox /\ StatusJob(k)
    BY <1>3, <2>3 DEF JobsAside, StatusJob
  <2>. QED
    BY <1>1, <2>1, <2>2, <2>3
<1>5. \A k \in DOMAIN outbox' \ DOMAIN outbox : outbox'[k].kind # "status"
  BY DEF JobsAside, CreateJob
<1>6. StageQueued'
  <2> SUFFICES ASSUME NEW n \in DOMAIN ttns', ttns'[n].rank > 0,
                      ttns'[n].code \in Mapped
               PROVE  \E i \in DOMAIN outbox' :
                         /\ outbox'[i].kind = "status" /\ outbox'[i].key[2] = n
                         /\ outbox'[i].payload.status = ttns'[n].code
    BY DEF StageQueued, StatusOf
  <2>1. n \in DOMAIN ttns
    OBVIOUS
  <2>2. PICK i \in DOMAIN outbox :
            StatusOf(i, n) /\ outbox[i].payload.status = ttns[n].code
    BY <1>2, <1>3, <2>1 DEF StageQueued
  <2>. QED
    BY <1>3, <2>1, <2>2 DEF JobsAside, StatusOf
<1>7. StagesInOrder'
  <2> SUFFICES ASSUME NEW n \in DOMAIN ttns', NEW i \in DOMAIN outbox',
                      NEW j \in DOMAIN outbox', i < j,
                      outbox'[i].kind = "status", outbox'[i].key[2] = n,
                      outbox'[j].kind = "status", outbox'[j].key[2] = n
               PROVE  Rank(outbox'[i].payload.status)
                         < Rank(outbox'[j].payload.status)
    BY DEF StagesInOrder, StatusOf
  <2>1. i \in DOMAIN outbox /\ j \in DOMAIN outbox
    BY <1>5
  <2>2. StatusOf(i, n) /\ StatusOf(j, n)
    BY <2>1 DEF JobsAside, StatusOf
  <2>3. n \in DOMAIN ttns
    BY <1>1, <2>1, <2>2 DEF StatusOf, StatusJob, CreateJob
  <2>4. Rank(outbox[i].payload.status) < Rank(outbox[j].payload.status)
    BY <1>2, <2>1, <2>2, <2>3 DEF StagesInOrder
  <2>. QED
    BY <2>1, <2>4 DEF JobsAside
<1>8. StagesHaveJobs'
  BY <1>6, <1>7, HavingJobs, PTL
<1>. QED
  BY <1>4, <1>8 DEF JobsInv, JobsAside

\* What a step leaves of a poll: its messages and its copies, or neither, or
\* copies that are new.  Messages are lost only when the process stops.
MessagesAside ==
    /\ sent' = sent
    /\ \/ toSend' = toSend /\ (poll' = "sending" <=> poll = "sending")
       \/ toSend' = <<>> /\ poll' # "sending" /\ spent'.aborts > 0

CopiesAside ==
    \/ polled' = polled
    \/ DOMAIN polled' = {}
    \/ \A n \in DOMAIN polled' : polled'[n] = ttns'[n]

SpentAside ==
    /\ spent' \in [aborts : Nat, requeues : Nat, late : Nat]
    /\ spent'.aborts >= spent.aborts

ParcelsAside ==
    /\ Grows
    /\ DOMAIN ttns' \subseteq Numbers
    /\ \A n \in DOMAIN ttns' \ DOMAIN ttns : ttns'[n].rank = 0
    /\ turns' = turns

Aside == JobsAside /\ MessagesAside /\ CopiesAside /\ SpentAside /\ ParcelsAside

LEMMA AsidePoll ==
    ASSUME ProgressInv, PollInv, Aside
    PROVE  PollInv'
<1>1. TurnsInv'
  BY DEF PollInv, TurnsInv, Aside, ParcelsAside
<1>2. (poll = "sending" <=> toSend # <<>>)'
  BY DEF PollInv, Aside, MessagesAside
<1>3. ASSUME NEW n \in DOMAIN polled', polled'[n].ext # NoExt
      PROVE  ttns'[n].ext = polled'[n].ext
  <2>1. CASE polled' = polled
    <3>1. n \in DOMAIN ttns /\ ttns[n].ext = polled[n].ext
      BY <1>3, <2>1 DEF ProgressInv, PolledFresh, PollInv
    <3>2. SameLinks(ttns[n], ttns'[n])
      BY <3>1 DEF Aside, ParcelsAside, Grows
    <3>. QED
      BY <1>3, <2>1, <3>1, <3>2 DEF SameLinks
  <2>2. CASE polled' # polled
    BY <1>3, <2>2 DEF Aside, CopiesAside
  <2>. QED
    BY <2>1, <2>2
<1>4. ASSUME NEW n \in DOMAIN ttns' PROVE ttns'[n].rank = Rank(ttns'[n].code)
  <2>1. CASE n \in DOMAIN ttns
    BY <2>1 DEF PollInv, Aside, ParcelsAside, Grows, SameProgress
  <2>2. CASE n \notin DOMAIN ttns
    <3>1. ttns'[n].code = 0 /\ ttns'[n].rank = 0
      BY <1>4, <2>2 DEF Aside, ParcelsAside, Grows
    <3>2. Rank(0) = 0
      BY DEF Rank, Stage
    <3>. QED
      BY <3>1, <3>2
  <2>. QED
    BY <2>1, <2>2
<1>5. SpentAside
  BY DEF Aside
<1>. QED
  BY <1>1, <1>2, <1>3, <1>4, <1>5 DEF PollInv, SpentAside

\* Fewer messages, and only those that there were.
Fewer ==
    /\ \E S : sent' \in Seq(S) /\ toSend' \in Seq(S)
    /\ DOMAIN Messages' \subseteq DOMAIN Messages
    /\ \A k \in DOMAIN Messages' : Messages'[k] = Messages[k]

\* Messages that are still there still fit.
LEMMA FewerKeeps ==
    ASSUME ProgressInv, MessagesInv, Fewer, Grows,
           spent'.aborts = 0 =>
              spent.aborts = 0 /\ DOMAIN Messages' = DOMAIN Messages
    PROVE  MessagesInv'
<1>1. PICK M : M = Messages'
  OBVIOUS
<1>2. /\ DOMAIN M \subseteq DOMAIN Messages
      /\ \A k \in DOMAIN M : M[k] = Messages[k]
  BY <1>1 DEF Fewer
<1>3. ASSUME NEW k \in DOMAIN M PROVE MessageFits(M[k])'
  <2>1. MessageFits(M[k])
    BY <1>2 DEF MessagesInv
  <2> DEFINE n == M[k].number
  <2>2. /\ n \in DOMAIN ttns /\ n \in DOMAIN ttns'
        /\ SameProgress(ttns[n], ttns'[n]) /\ SameLinks(ttns[n], ttns'[n])
    BY <2>1 DEF MessageFits, Grows
  <2>3. M[k].to \in ExternalIds => ttns'[n].ext = M[k].to
    BY <2>1, <2>2, TrackingAssumption DEF MessageFits, SameLinks
  <2>. QED
    BY <2>1, <2>2, <2>3 DEF MessageFits, SameProgress, StageRank
<1>4. \A k \in DOMAIN Messages' : MessageFits(Messages[k])'
  BY <1>1, <1>3
<1>5. InOrder(M)
  BY <1>2 DEF MessagesInv, InOrder
<1>6. InOrder(Messages)'
  BY <1>1, <1>5 DEF InOrder, StageRank
<1>7. ASSUME spent'.aborts = 0, NEW n \in DOMAIN ttns', WorthTelling(n)'
      PROVE  ToldOf(Messages, n)'
  <2>1. n \in DOMAIN ttns /\ ttns'[n].code = ttns[n].code
    <3>1. ~(Stage(0) \in {"transit", "arrived", "received", "refused"})
      BY DEF Stage
    <3>. QED
      BY <1>7, <3>1 DEF WorthTelling, Grows, SameProgress
  <2>2. ToldOf(Messages, n) /\ DOMAIN M = DOMAIN Messages
    BY <1>1, <1>7, <2>1 DEF MessagesInv, Told, WorthTelling
  <2>. QED
    BY <1>1, <1>2, <2>1, <2>2 DEF ToldOf
<1>. QED
  BY <1>4, <1>6, <1>7 DEF MessagesInv, Fewer, Told

LEMMA AsideMessages ==
    ASSUME ProgressInv, PollInv, MessagesInv, Aside
    PROVE  MessagesInv'
<1>1. PICK S : sent \in Seq(S) /\ toSend \in Seq(S)
  BY DEF MessagesInv
<1>2. CASE toSend' = toSend
  <2>1. Messages' = Messages /\ sent' = sent
    BY <1>2 DEF Messages, Aside, MessagesAside
  <2>2. Fewer
    BY <1>1, <1>2, <2>1 DEF Fewer
  <2>3. spent'.aborts = 0 => spent.aborts = 0
    BY DEF Aside, SpentAside, PollInv
  <2>. QED
    BY <2>1, <2>2, <2>3, FewerKeeps DEF Aside, ParcelsAside
<1>3. CASE toSend' # toSend
  <2>1. toSend' = <<>> /\ sent' = sent /\ spent'.aborts > 0
    BY <1>3 DEF Aside, MessagesAside
  <2>2. Messages' = sent
    BY <1>1, <2>1 DEF Messages
  <2>3. toSend' \in Seq(S)
    BY <2>1
  <2>4. /\ DOMAIN sent \subseteq DOMAIN Messages
        /\ \A k \in DOMAIN sent : Messages[k] = sent[k]
    BY <1>1 DEF Messages
  <2>5. Fewer
    BY <1>1, <2>1, <2>2, <2>3, <2>4 DEF Fewer
  <2>6. spent'.aborts # 0
    BY <2>1 DEF Aside, SpentAside
  <2>. QED
    BY <2>5, <2>6, FewerKeeps DEF Aside, ParcelsAside
<1>. QED
  BY <1>2, <1>3

\* A message goes from the one list to the other.
LEMMA SendNoticeKeeps ==
    ASSUME DeliveryInv, SendNotice
    PROVE  PollInv' /\ MessagesInv' /\ JobsInv'
<1>1. ProgressInv /\ PollInv /\ MessagesInv /\ JobsInv
  BY DEF DeliveryInv
<1>2. PICK S : sent \in Seq(S) /\ toSend \in Seq(S)
  BY <1>1 DEF MessagesInv
<1>3. toSend # <<>>
  BY <1>1 DEF SendNotice, PollInv
<1>4. /\ sent' = Append(sent, Head(toSend)) /\ toSend' = Tail(toSend)
      /\ ttns' = ttns /\ turns' = turns /\ polled' = polled
      /\ outbox' = outbox /\ spent' = spent
      /\ poll' = IF Len(toSend) = 1 THEN "idle" ELSE "sending"
  BY DEF SendNotice, outboxVars
<1>5. sent' \in Seq(S) /\ toSend' \in Seq(S)
  BY <1>2, <1>3, <1>4
<1>6. toSend' = <<>> <=> Len(toSend) = 1
  <2>1. PICK t : t = toSend'
    OBVIOUS
  <2>2. t \in Seq(S) /\ Len(t) = Len(toSend) - 1 /\ Len(toSend) \in Nat
    BY <1>2, <1>3, <1>4, <2>1
  <2>3. t = <<>> <=> Len(t) = 0
    BY <2>2
  <2>. QED
    BY <2>1, <2>2, <2>3
<1>7. PollInv'
  BY <1>1, <1>4, <1>6 DEF PollInv, TurnsInv
<1>8. /\ DOMAIN Messages' = DOMAIN Messages
      /\ \A k \in DOMAIN Messages : Messages'[k] = Messages[k]
  <2>1. PICK x, t : x = Head(toSend) /\ t = Tail(toSend)
    OBVIOUS
  <2>2. /\ x \in S /\ t \in Seq(S) /\ Len(t) = Len(toSend) - 1
        /\ Len(toSend) \in Nat /\ Len(toSend) > 0
        /\ toSend[1] = x
        /\ \A k \in 1 .. Len(t) : t[k] = toSend[k + 1]
    BY <1>2, <1>3, <2>1
  <2>3. Messages' = Append(sent, x) \o t
    BY <1>4, <2>1 DEF Messages
  <2>4. /\ Append(sent, x) \in Seq(S)
        /\ Len(Append(sent, x)) = Len(sent) + 1 /\ Len(sent) \in Nat
        /\ \A k \in 1 .. Len(sent) : Append(sent, x)[k] = sent[k]
        /\ Append(sent, x)[Len(sent) + 1] = x
    BY <1>2, <2>2
  <2>5. DOMAIN (Append(sent, x) \o t) = DOMAIN (sent \o toSend)
    <3>1. DOMAIN (Append(sent, x) \o t) = 1 .. (Len(sent) + 1 + Len(t))
      <4>1. PICK a : a = Append(sent, x)
        OBVIOUS
      <4>2. a \in Seq(S) /\ t \in Seq(S) /\ Len(a) = Len(sent) + 1
        BY <2>2, <2>4, <4>1
      <4>3. Len(a \o t) = Len(a) + Len(t) /\ (a \o t) \in Seq(S)
        BY ONLY <4>2
      <4>4. DOMAIN (a \o t) = 1 .. (Len(a) + Len(t))
        BY ONLY <4>3
      <4>. QED
        BY <4>1, <4>2, <4>4
    <3>2. DOMAIN (sent \o toSend) = 1 .. (Len(sent) + Len(toSend))
      BY <1>2
    <3>3. Len(sent) + 1 + Len(t) = Len(sent) + Len(toSend)
      BY <2>2, <2>4
    <3>. QED
      BY <3>1, <3>2, <3>3
  <2>6. ASSUME NEW k \in DOMAIN (sent \o toSend)
        PROVE  (Append(sent, x) \o t)[k] = (sent \o toSend)[k]
    BY <1>2, <2>2, <2>4, <2>6
  <2>. QED
    BY <2>3, <2>5, <2>6 DEF Messages
<1>9. Fewer
  BY <1>5, <1>8 DEF Fewer
<1>10. Grows
  BY <1>1, <1>4, SameGrows
<1>11. MessagesInv'
  BY <1>1, <1>4, <1>8, <1>9, <1>10, FewerKeeps
<1>12. JobsInv'
  BY <1>1, <1>4, <1>10, SameJobsAside, JobsAsideKeeps
<1>. QED
  BY <1>7, <1>11, <1>12

\* The second transaction of a poll keeps what its messages need.
LEMMA PollStoredPoll ==
    ASSUME ProgressInv, PollInv, NEW got, Answers(got), PollStored(got)
    PROVE  PollInv'
<1>1. /\ DOMAIN ttns' = DOMAIN ttns /\ polled' = <<>> /\ spent' = spent
      /\ poll' = IF toSend' = <<>> THEN "idle" ELSE "sending"
  BY DEF PollStored, WriteBack
<1>2. turns' \in [Numbers -> Nat]
  <2> DEFINE after(n) == IF n \in DOMAIN polled THEN 1 + Cardinality(Numbers)
                                                ELSE turns[n]
             f == [m \in Numbers |-> after(m)]
             all == {after(m) : m \in Numbers}
  <2>1. turns' = [n \in Numbers |-> Cardinality({t \in all \ {0} : t <= after(n)})]
    BY DEF PollStored, TakeTurn
  <2>2. f \in Surjection(Numbers, all)
    BY DEF Surjection
  <2>3. IsFiniteSet(all)
    BY <2>2, FS_Surjection, TrackingAssumption
  <2>. HIDE DEF all, after
  <2>4. ASSUME NEW n \in Numbers
        PROVE  Cardinality({t \in all \ {0} : t <= after(n)}) \in Nat
    <3>1. {t \in all \ {0} : t <= after(n)} \in SUBSET all
      OBVIOUS
    <3>. QED
      BY <2>3, <3>1, FS_Subset, FS_CardinalityType
  <2>. QED
    BY <2>1, <2>4
<1>3. ASSUME NEW n \in DOMAIN ttns PROVE ttns'[n].rank = Rank(ttns'[n].code)
  BY RowPolled DEF PollInv
<1>4. TurnsInv'
  BY <1>1, <1>2 DEF PollInv, TurnsInv
<1>. QED
  BY <1>1, <1>3, <1>4 DEF PollInv

------------------------------------------------------------------------------
(* Every step *)

LEMMA SameParcelsAside ==
    ASSUME ProgressInv, PollInv, ttns' = ttns, turns' = turns
    PROVE  ParcelsAside
  BY SameGrows DEF PollInv, TurnsInv, ParcelsAside

LEMMA AddParcelAside ==
    ASSUME ProgressInv, PollInv, NEW n \in Numbers, NEW ext, NEW id,
           ttns' = AddTTN(ttns, n, ext, id), turns' = turns
    PROVE  ParcelsAside
<1>1. Grows
  BY AddGrows
<1>2. /\ DOMAIN ttns' = DOMAIN ttns \cup {n}
      /\ n \notin DOMAIN ttns => ttns'[n].rank = 0
  BY DEF AddTTN, InsertTTN
<1>. QED
  BY <1>1, <1>2 DEF PollInv, TurnsInv, ParcelsAside

LEMMA TimeAside ==
    ASSUME ProgressInv, PollInv, NEW n \in DOMAIN ttns,
           PollEveryElapses(n) \/ Ages(n)
    PROVE  ParcelsAside
<1>1. Grows
  BY TimeGrows
<1>2. DOMAIN ttns' = DOMAIN ttns /\ turns' = turns
  BY DEF PollEveryElapses, Ages, pollVars
<1>. QED
  BY <1>1, <1>2 DEF PollInv, TurnsInv, ParcelsAside

\* A step that tracking has no part in, but for the jobs.
LEMMA OtherAside ==
    ASSUME DeliveryInv, UNCHANGED trackingVars, JobsAside, SpentAside
    PROVE  Aside
<1>1. ttns' = ttns /\ turns' = turns /\ UNCHANGED <<poll, polled, toSend, sent>>
  BY DEF trackingVars, pollVars
<1>2. ParcelsAside
  BY <1>1, SameParcelsAside DEF DeliveryInv
<1>. QED
  BY <1>1, <1>2 DEF Aside, MessagesAside, CopiesAside

LEMMA SameSpent ==
    ASSUME PollInv, spent' = spent PROVE SpentAside
  BY DEF PollInv, SpentAside

LEMMA MoreSpent ==
    ASSUME PollInv,
           \/ spent' = [spent EXCEPT !.aborts = @ + 1]
           \/ spent' = [spent EXCEPT !.requeues = @ + 1]
           \/ spent' = [spent EXCEPT !.late = @ + 1]
    PROVE  SpentAside
  BY DEF PollInv, SpentAside

\* The worker's steps on a create or status job.
LEMMA WorkerAside ==
    ASSUME DeliveryInv, NEW i, WorkerStep(i)
    PROVE  Aside
<1>1. JobsInv /\ PollInv
  BY DEF DeliveryInv
<1>2. UNCHANGED trackingVars
  BY DEF WorkerStep, StatusStep, StatusUnlinked, StatusStuck, SendStatus,
         StatusAnswered
<1>3. CASE \/ StatusStuck(i) \/ SendStatus(i) \/ LookupMissed(i) \/ SendCreate(i)
  <2>1. outbox' = outbox /\ spent' = spent
    BY <1>3 DEF StatusStuck, SendStatus, LookupMissed, SendCreate
  <2>. QED
    BY <1>1, <1>2, <2>1, SameJobsAside, SameSpent, OtherAside
<1>4. CASE \/ StatusUnlinked(i) \/ StatusAnswered(i) \/ LookupFound(i)
           \/ LookupFailed(i) \/ CreateAnswered(i) \/ CallRefused(i) \/ CallLost(i)
  <2>1. (Finish(i) \/ Fail(i) \/ Retry(i)) /\ spent' = spent
    BY <1>4 DEF StatusUnlinked, StatusAnswered, LookupFound, LookupFailed,
                CreateAnswered, CallRefused, CallLost, Failed
  <2>. QED
    BY <1>1, <1>2, <2>1, OutcomeAside, SameSpent, OtherAside
<1>5. CASE CreateTimedOut(i)
  <2>1. Retry(i) /\ spent' = [spent EXCEPT !.late = @ + 1]
    BY <1>5 DEF CreateTimedOut
  <2>. QED
    BY <1>1, <1>2, <2>1, OutcomeAside, MoreSpent, OtherAside
<1>. QED
  BY <1>3, <1>4, <1>5 DEF WorkerStep, StatusStep, CreateStep

\* The steps of the outbox and the CRM on their own.
LEMMA OutboxAside ==
    ASSUME DeliveryInv, OutboxNext, UNCHANGED trackingVars
    PROVE  Aside
<1>1. JobsInv /\ PollInv
  BY DEF DeliveryInv
<1>2. ASSUME outbox' = outbox /\ spent' = spent PROVE Aside
  BY <1>1, <1>2, SameJobsAside, SameSpent, OtherAside
<1>3. ASSUME NEW id \in DOMAIN deals, OnSalesDrive(id) PROVE Aside
  BY <1>2, <1>3 DEF OnSalesDrive
<1>4. ASSUME NEW i \in DOMAIN outbox, Requeue(i) PROVE Aside
  <2>1. spent' = [spent EXCEPT !.requeues = @ + 1]
    BY <1>4 DEF Requeue
  <2>. QED
    BY <1>1, <1>4, <2>1, RowAside, MoreSpent, OtherAside
<1>5. ASSUME NEW i \in DOMAIN batch, CreateDeal(i) PROVE Aside
  BY <1>2, <1>5 DEF CreateDeal
<1>6. ASSUME NEW ext \in ExternalIds, LateDeal(ext) PROVE Aside
  BY <1>2, <1>6 DEF LateDeal
<1>7. ASSUME NEW i \in DOMAIN outbox, BackoffElapses(i) PROVE Aside
  <2>1. spent' = spent
    BY <1>7 DEF BackoffElapses
  <2>. QED
    BY <1>1, <1>7, <2>1, RowAside, SameSpent, OtherAside
<1>8. ASSUME DropBatch PROVE Aside
  <2>1. outbox' = outbox /\ spent' = [spent EXCEPT !.aborts = @ + 1]
    BY <1>8 DEF DropBatch
  <2>. QED
    BY <1>1, <2>1, SameJobsAside, MoreSpent, OtherAside
<1>9. CASE Abort
  BY <1>8, <1>9 DEF Abort
<1>10. ASSUME NEW i \in DOMAIN batch, AbortInFlight(i) PROVE Aside
  BY <1>8, <1>10 DEF AbortInFlight
<1>. QED
  BY <1>3, <1>4, <1>5, <1>6, <1>7, <1>9, <1>10 DEF OutboxNext

\* The handlers that may add a parcel.
LEMMA HandlerAside ==
    ASSUME DeliveryInv, JobsAside, spent' = spent, UNCHANGED <<pollVars, sent>>,
           \/ ttns' = ttns
           \/ \E n \in Numbers : \E ext, id : ttns' = AddTTN(ttns, n, ext, id)
    PROVE  Aside
<1>1. UNCHANGED <<turns, poll, polled, toSend, sent>>
  BY DEF pollVars
<1>2. ProgressInv /\ PollInv
  BY DEF DeliveryInv
<1>3. ParcelsAside
  BY <1>1, <1>2, SameParcelsAside, AddParcelAside
<1>. QED
  BY <1>1, <1>2, <1>3, SameSpent DEF Aside, MessagesAside, CopiesAside

\* The steps of a poll besides those that tell.
LEMMA PollAside ==
    ASSUME DeliveryInv, PollBegins \/ PollFailed \/ PollAbort
    PROVE  Aside
<1>1. ProgressInv /\ PollInv /\ JobsInv
  BY DEF DeliveryInv
<1>2. outbox' = outbox /\ ttns' = ttns /\ turns' = turns /\ sent' = sent
  BY DEF PollBegins, PollFailed, PollAbort, outboxVars
<1>3. JobsAside /\ ParcelsAside
  BY <1>1, <1>2, SameJobsAside, SameParcelsAside
<1>4. CASE PollBegins
  <2>1. /\ spent' = spent /\ toSend' = toSend
        /\ poll = "idle" /\ poll' = "asked"
        /\ polled' = [n \in DueTTNs |-> ttns[n]]
    BY <1>4 DEF PollBegins, outboxVars
  <2>. QED
    BY <1>1, <1>2, <1>3, <2>1, SameSpent DEF Aside, MessagesAside, CopiesAside
<1>5. CASE PollFailed
  <2>1. /\ spent' = spent /\ toSend' = toSend
        /\ poll = "asked" /\ poll' = "idle" /\ polled' = <<>>
    BY <1>5 DEF PollFailed, outboxVars
  <2>. QED
    BY <1>1, <1>2, <1>3, <2>1, SameSpent DEF Aside, MessagesAside, CopiesAside
<1>6. CASE PollAbort
  <2>1. /\ spent' = [spent EXCEPT !.aborts = @ + 1] /\ toSend' = <<>>
        /\ poll' = "idle" /\ polled' = <<>>
    BY <1>6 DEF PollAbort
  <2>2. spent'.aborts > 0
    BY <1>1, <2>1 DEF PollInv
  <2>. QED
    BY <1>1, <1>2, <1>3, <2>1, <2>2, MoreSpent DEF Aside, MessagesAside, CopiesAside
<1>. QED
  BY <1>4, <1>5, <1>6

Telling ==
    \/ SendNotice
    \/ \E S \in SUBSET DOMAIN polled : \E got \in [S -> Codes] : PollStored(got)

\* Whatever does not tell is beside it.
LEMMA StepTellsOrNot ==
    ASSUME DeliveryInv, [Next]_vars
    PROVE  Aside \/ Telling
<1>1. JobsInv /\ PollInv
  BY DEF DeliveryInv
<1>2. ASSUME NEW ext \in ExternalIds, Ingest(ext) PROVE Aside
  <2>1. /\ UNCHANGED <<pollVars, sent>> /\ spent' = spent
        /\ outbox' = outbox \/ outbox' = EnqueueCreate(outbox, ext)
        /\ \/ ttns' = ttns
           \/ \E n \in Numbers : ttns' = AddTTN(ttns, n, ext, NoId)
    BY <1>2 DEF Ingest
  <2>2. JobsAside
    BY <1>1, <2>1, SameJobsAside, EnqueueAside
  <2>. QED
    BY <2>1, <2>2, HandlerAside
<1>3. ASSUME NEW id \in DOMAIN deals, NEW n \in Numbers, WebhookWithTTN(id, n)
      PROVE  Aside
  <2>1. /\ UNCHANGED <<pollVars, sent>> /\ spent' = spent /\ outbox' = outbox
        /\ ttns' = AddTTN(ttns, n, deals[id], id)
    BY <1>3 DEF WebhookWithTTN, OnSalesDrive
  <2>. QED
    BY <1>1, <2>1, SameJobsAside, HandlerAside
<1>4. ASSUME NEW n \in Numbers, NEW ext \in ByHand, AddTTNByHand(n, ext)
      PROVE  Aside
  <2>1. /\ UNCHANGED <<pollVars, sent>> /\ spent' = spent /\ outbox' = outbox
        /\ \E id : ttns' = AddTTN(ttns, n, ext, id)
    BY <1>4 DEF AddTTNByHand, outboxVars
  <2>. QED
    BY <1>1, <2>1, SameJobsAside, HandlerAside
<1>5. CASE PollBegins
  BY <1>5, PollAside
<1>6. CASE PollStep
  BY <1>6, PollAside DEF PollStep, PollAnswered, Telling
<1>7. CASE PollAbort
  BY <1>7, PollAside
<1>8. ASSUME NEW n \in DOMAIN ttns, PollEveryElapses(n) \/ Ages(n) PROVE Aside
  <2>1. /\ UNCHANGED <<poll, polled, toSend, sent>>
        /\ outbox' = outbox /\ spent' = spent
    BY <1>8 DEF PollEveryElapses, Ages, pollVars, outboxVars
  <2>2. ParcelsAside
    BY <1>8, TimeAside DEF DeliveryInv
  <2>. QED
    BY <1>1, <2>1, <2>2, SameJobsAside, SameSpent
    DEF Aside, MessagesAside, CopiesAside
<1>9. CASE Round
  <2>1. outbox' = outbox /\ spent' = spent /\ UNCHANGED trackingVars
    BY <1>9 DEF Round, ProcessOnce
  <2>. QED
    BY <1>1, <2>1, SameJobsAside, SameSpent, OtherAside
<1>10. ASSUME NEW i \in DOMAIN batch, WorkerStep(i) PROVE Aside
  BY <1>10, WorkerAside
<1>11. ASSUME NEW i \in DOMAIN batch, MoveDeal(i) PROVE Aside
  <2>1. UNCHANGED <<pollVars, sent>> /\ spent' = spent /\ outbox' = outbox /\ ttns' = ttns
    BY <1>11 DEF MoveDeal
  <2>. QED
    BY <1>1, <2>1, SameJobsAside, HandlerAside
<1>12. CASE OutboxNext /\ UNCHANGED trackingVars
  BY <1>12, OutboxAside
<1>13. CASE UNCHANGED vars
  <2>1. outbox' = outbox /\ spent' = spent /\ UNCHANGED trackingVars
    BY <1>13 DEF vars, outboxVars
  <2>. QED
    BY <1>1, <2>1, SameJobsAside, SameSpent, OtherAside
<1>. QED
  BY <1>2, <1>3, <1>4, <1>5, <1>6, <1>7, <1>8, <1>9, <1>10, <1>11, <1>12, <1>13
  DEF Next

LEMMA Initially == Init => DeliveryInv
<1> SUFFICES ASSUME Init PROVE DeliveryInv
  OBVIOUS
<1>1. /\ ttns = [n \in {} |-> 0] /\ turns = [n \in Numbers |-> 0] /\ poll = "idle"
      /\ polled = [n \in {} |-> 0] /\ toSend = <<>> /\ sent = <<>> /\ outbox = <<>>
      /\ spent = [aborts |-> 0, requeues |-> 0, late |-> 0]
  BY DEF Init, OutboxInit
<1>2. ProgressInv
  BY <1>1 DEF ProgressInv, RowsInv, PolledInv, PolledFresh
<1>3. PollInv
  BY <1>1 DEF PollInv, TurnsInv
<1>4. MessagesInv
  <2>1. sent \in Seq({}) /\ toSend \in Seq({}) /\ Messages = <<>>
    BY <1>1 DEF Messages
  <2>. QED
    BY <1>1, <2>1 DEF MessagesInv, InOrder, Told
<1>5. JobsInv
  <2>1. outbox \in Seq({}) /\ DOMAIN outbox = {}
    BY <1>1
  <2>2. StageQueued /\ StagesInOrder
    BY <1>1, <2>1 DEF StageQueued, StagesInOrder
  <2>. QED
    BY <2>1, <2>2, HavingJobs DEF JobsInv
<1>. QED
  BY <1>2, <1>3, <1>4, <1>5 DEF DeliveryInv

LEMMA Inductive ==
    ASSUME DeliveryInv, [Next]_vars
    PROVE  DeliveryInv'
<1>1. ProgressInv /\ PollInv /\ MessagesInv /\ JobsInv
  BY DEF DeliveryInv
<1>2. ProgressInv'
  BY <1>1, StepKeeps DEF Kept
<1>3. CASE Aside
  <2>1. JobsInv'
    BY <1>1, <1>3, JobsAsideKeeps DEF Aside, ParcelsAside
  <2>. QED
    BY <1>1, <1>2, <1>3, <2>1, AsidePoll, AsideMessages DEF DeliveryInv
<1>4. CASE SendNotice
  BY <1>2, <1>4, SendNoticeKeeps DEF DeliveryInv
<1>5. ASSUME NEW S \in SUBSET DOMAIN polled, NEW got \in [S -> Codes],
             PollStored(got)
      PROVE  DeliveryInv'
  <2>1. Answers(got)
    BY DEF Answers
  <2>. QED
    BY <1>1, <1>2, <1>5, <2>1, PollStoredPoll, PollStoredMessages, PollStoredJobs
    DEF DeliveryInv
<1>. QED
  BY <1>3, <1>4, <1>5, StepTellsOrNot DEF Telling

------------------------------------------------------------------------------
(* The theorems *)

\* The invariant of this module holds in all that tracking does.
THEOREM DeliveryInvariant == Spec => []DeliveryInv
  BY Initially, Inductive, PTL DEF Spec

\* No stage of a parcel is announced twice, or after a later one, whatever is
\* answered and however polls are repeated or cut short.
THEOREM NoticesInOrder == Spec => []MessagesInOrder
<1>1. DeliveryInv => MessagesInOrder
  BY DEF DeliveryInv, MessagesInv, InOrder, Messages, StageRank, MessagesInOrder
<1>. QED
  BY <1>1, DeliveryInvariant, PTL

\* A customer's message is about a parcel of that customer's order, now and ever
\* after, although the order is looked up by the link of an older copy.
THEOREM NoticesToOwner == Spec => []MessagesToOwner
<1>1. DeliveryInv => MessagesToOwner
  BY DEF DeliveryInv, MessagesInv, MessageFits, Messages, MessagesToOwner
<1>. QED
  BY <1>1, DeliveryInvariant, PTL

\* Unless the process stops, each stage worth telling that a parcel has come to
\* has its message.
THEOREM StagesAreTold == Spec => []StageIsTold
<1>1. DeliveryInv => StageIsTold
  BY DEF DeliveryInv, MessagesInv, Told, ToldOf, WorthTelling, Messages, StageIsTold
<1>. QED
  BY <1>1, DeliveryInvariant, PTL

\* The stage of a parcel has its status job, and the jobs of a parcel stand in
\* the order of its stages, so that the deal is moved forward.
THEOREM StagesAreQueued == Spec => []StagesHaveJobs
<1>1. DeliveryInv => StagesHaveJobs
  BY DEF DeliveryInv, JobsInv
<1>. QED
  BY <1>1, DeliveryInvariant, PTL
==============================================================================
