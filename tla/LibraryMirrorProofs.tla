------------------------ MODULE LibraryMirrorProofs ------------------------
(***************************************************************************)
(* The mirror's three promises, for every Library, page size, bound and    *)
(* course of failures.  A page is cut from the feed by counting, so its    *)
(* last row is a maximum of a finite set: PageCut makes of it a cursor     *)
(* that nothing read lies behind.  FeedInv says what a walk has read, for  *)
(* any number of sweeps; TitleInv, PhantomInv and MissesInv each follow    *)
(* one promise through the phases of a sweep and need that the sweeps of a *)
(* Link do not overlap (OneSweep), as when only the links worker pulls:    *)
(* TLC finds each of the three broken where two sweeps overlap.  Writes    *)
(* fall between any two queries; MissesInv follows those that come late    *)
(* for the page under way, and says of all others that nothing is missed.  *)
(***************************************************************************)
EXTENDS LibraryMirror, FiniteSetTheorems, WellFoundedInduction, TLAPS

\* The sweeps of the Link do not overlap.
OneSweep == \A s, t \in Sweeps : s = t

\* No row is ahead of the sharer's clock.
Stamps(f) == \A e \in Entities : f[e] # Absent => f[e].at \in 1..clock

\* What was read of e is what e is, or e has changed since.
ReadOf(f) == \A e \in Entities :
    f[e] # Absent /\ rows[e] # Absent => rows[e] = f[e] \/ f[e].at < rows[e].at

\* What was found of the next page is after the cursor, and from queries asked.
WalkInv(w) ==
    /\ w.cursor.at <= clock /\ Stamps(w.carried) /\ Stamps(w.found)
    /\ ReadOf(w.carried) /\ ReadOf(w.found)
    /\ \A e \in Entities : w.found[e] # Absent => e \in Asked(w.asked) /\ Before(w.cursor, At(w.found, e))

FeedInv == TypeOK /\ Stamps(rows) /\ \A s \in Sweeps : WalkInv(walk[s])

-----------------------------------------------------------------------------
\* In what follows a sweep is where ph says, with the walk w.

TitleThere(f) == \A t \in Titles : f[t] # Absent => rows[t] # Absent

\* A full walk has passed no mirrored Title without taking it.
TitleKept(ph, w) ==
    /\ TitleThere(w.carried) /\ TitleThere(w.found)
    /\ w.full => \A t \in Titles : mirror[t] # Absent =>
          /\ ph = "walk" =>
                /\ w.carried[t] # Absent \/ Before(w.cursor, At(rows, t))
                /\ t \in Asked(w.asked) => w.carried[t] # Absent \/ w.found[t] # Absent
          /\ ph = "apply" => w.carried[t] # Absent

TitleInv == TitleThere(mirror) /\ \A s \in Sweeps : TitleKept(phase[s], walk[s])

\* Media that the feed will say nothing of any more, and Media that is news.
Phantoms(f) == {m \in Media : f[m] # Absent /\ rows[m] = Absent /\ m \notin torn}
NewsAfter(p) == \E n \in Media : rows[n] # Absent /\ Before(p, At(rows, n))

PhantomsTold(ph, w) ==
    /\ ph = "walk" =>
          /\ Phantoms(w.carried) = {}
          /\ ~w.full /\ Phantoms(mirror) # {} => CarriesMedia(w.carried) \/ NewsAfter(w.cursor)
    /\ ph = "apply" /\ (Phantoms(w.carried) # {} \/ (~w.full /\ Phantoms(mirror) # {})) =>
          NewsAfter(w.cursor) /\ NewsAfter(checkpoint)
    /\ ph = "applied" /\ Phantoms(mirror) # {} => NewsAfter(w.cursor)

PhantomInv == /\ Phantoms(mirror) # {} => NewsAfter(checkpoint)
              /\ \A s \in Sweeps : PhantomsTold(phase[s], walk[s])

\* A Title that is not late is in the page under way as it is.
FoundWhole(w) ==
    \A e \in Asked(w.asked) : e \notin late =>
       w.found[e] = IF rows[e] # Absent /\ Before(w.cursor, At(rows, e)) THEN rows[e] ELSE Absent

WalkWhole(ph, w) ==
    /\ ph = "walk" => FoundWhole(w)
    /\ ph \in {"walk", "apply"} =>
          /\ ~w.full => /\ ~Before(w.cursor, checkpoint)
                        /\ \A e \in Entities : w.carried[e] # Absent => Before(checkpoint, At(w.carried, e))
          /\ \A e \in Entities : By(w.cursor, e) /\ e \notin late /\ (w.full \/ ~By(checkpoint, e))
                                   => w.carried[e] = rows[e]
    /\ ph = "apply" /\ w.full =>
          \A e \in Entities : By(checkpoint, e) /\ e \notin late => w.carried[e] = rows[e]
    /\ ph = "applied" => \A e \in Entities : By(w.cursor, e) /\ e \notin late => mirror[e] = rows[e]

MissesInv == MissesNothing /\ \A s \in Sweeps : WalkWhole(phase[s], walk[s])
-----------------------------------------------------------------------------
(* The feed's order, and the page that is its beginning.                   *)

LEMMA MirrorSets ==
    /\ Entities \subseteq Nat /\ Titles \subseteq Entities /\ Media \subseteq Entities
    /\ Entities = Titles \cup Media /\ Titles \cap Media = {}
    /\ IsFiniteSet(Entities)
    /\ Absent \notin Row
<1>1. IsFiniteSet(Entities)
  BY MirrorConstants, FS_Interval DEF Entities
<1> QED
  BY <1>1, MirrorConstants DEF Entities, Titles, Media, Row

LEMMA BeforeIsAnOrder ==
    /\ \A p \in Position : ~Before(p, p)
    /\ \A p, q, r \in Position : Before(p, q) /\ Before(q, r) => Before(p, r)
    /\ \A p, q \in Position : p = q \/ Before(p, q) \/ Before(q, p)
    /\ \A p, q \in Position : Before(p, q) => p.at <= q.at
    /\ \A p, q \in Position : p.at < q.at => Before(p, q)
    /\ \A p \in Position : 0 < p.at => Before(Start, p)
    /\ Start \in Position
<1>1. ASSUME NEW p \in Position, NEW q \in Position PROVE p = q \/ Before(p, q) \/ Before(q, p)
  <2>1. p = [at |-> p.at, id |-> p.id] /\ q = [at |-> q.at, id |-> q.id]
    BY DEF Position
  <2> QED
    BY <2>1 DEF Position, Before
<1> QED
  BY <1>1 DEF Position, Before, Start

(* Where a row is, is a position of its own.                               *)
LEMMA Positions ==
    ASSUME NEW f \in Rows
    PROVE  /\ \A e \in Held(f) : /\ e \in Entities /\ f[e] \in Row /\ At(f, e) \in Position
                                 /\ At(f, e).at = f[e].at /\ At(f, e).id = e
           /\ \A e, d \in Held(f) : d = e \/ Before(At(f, d), At(f, e)) \/ Before(At(f, e), At(f, d))
           /\ \A e \in Entities : f[e] # Absent <=> e \in Held(f)
<1>1. \A e \in Held(f) : /\ e \in Entities /\ f[e] \in Row /\ At(f, e) \in Position
                         /\ At(f, e).at = f[e].at /\ At(f, e).id = e
  BY MirrorSets DEF Held, Rows, Row, At, Position
<1> QED
  BY <1>1, BeforeIsAnOrder DEF Held

LEMMA LeastNatural ==
    ASSUME NEW T \in SUBSET Nat, T # {}
    PROVE  \E n \in T : \A m \in T : n <= m
<1> DEFINE R == {ss \in Nat \X Nat : ss[1] < ss[2]}
<1>1. IsWellFoundedOn(R, Nat)
  BY NatLessThanWellFounded DEF OpToRel
<1>2. \E n \in T : \A m \in T : ~ (<<m, n>> \in R)
  <2> HIDE DEF R
  <2> QED BY <1>1, WFMin
<1>3. \A m, n \in Nat : m < n => <<m, n>> \in R
  OBVIOUS
<1> HIDE DEF R
<1>4. PICK n \in T : \A m \in T : ~ (<<m, n>> \in R)
  BY <1>2
<1>5. \A m \in T : ~(m < n)
  BY <1>3, <1>4
<1> QED
  BY <1>5

(* Every set of rows has a first and a last one in the feed's order.       *)
LEMMA Extremes ==
    ASSUME NEW f \in Rows, NEW S \in SUBSET Held(f), S # {}
    PROVE  /\ \E e \in S : \A d \in S : d = e \/ Before(At(f, d), At(f, e))
           /\ \E e \in S : \A d \in S : d = e \/ Before(At(f, e), At(f, d))
<1>1. IsFiniteSet(S)
  BY MirrorSets, FS_Subset DEF Held
<1>2. /\ \A e, d \in S : d = e \/ Before(At(f, d), At(f, e)) \/ Before(At(f, e), At(f, d))
      /\ \A e \in S : ~Before(At(f, e), At(f, e))
      /\ \A a, b, c \in S : Before(At(f, a), At(f, b)) /\ Before(At(f, b), At(f, c))
                                => Before(At(f, a), At(f, c))
  BY Positions, BeforeIsAnOrder
<1>3. \E e \in S : \A d \in S : d = e \/ Before(At(f, d), At(f, e))
  <2> DEFINE Later(e) == {d \in S : Before(At(f, e), At(f, d))}
             T == {Cardinality(Later(e)) : e \in S}
  <2>1. \A e \in S : IsFiniteSet(Later(e)) /\ Cardinality(Later(e)) \in Nat
    BY <1>1, FS_Subset, FS_CardinalityType
  <2>2. PICK e \in S : \A d \in S : Cardinality(Later(e)) <= Cardinality(Later(d))
    <3>1. T \in SUBSET Nat /\ T # {}
      BY <2>1
    <3>2. PICK n \in T : \A m \in T : n <= m
      BY <3>1, LeastNatural
    <3> QED BY <3>2
  <2>3. ASSUME NEW d \in S, d # e, ~Before(At(f, d), At(f, e)) PROVE FALSE
    <3>1. d \in Later(e) /\ d \notin Later(d) /\ Later(d) \subseteq Later(e)
      BY <1>2, <2>3
    <3>2. Cardinality(Later(d)) <= Cardinality(Later(e)) /\ Cardinality(Later(d)) # Cardinality(Later(e))
      BY <2>1, <3>1, FS_Subset
    <3>3. Cardinality(Later(e)) <= Cardinality(Later(d))
      BY <2>2
    <3>4. Cardinality(Later(e)) \in Nat /\ Cardinality(Later(d)) \in Nat
      BY <2>1
    <3> HIDE DEF Later
    <3> QED BY <3>2, <3>3, <3>4
  <2> QED BY <2>3
<1>4. \E e \in S : \A d \in S : d = e \/ Before(At(f, e), At(f, d))
  <2> DEFINE Until(e) == {d \in S : Before(At(f, d), At(f, e))}
             T == {Cardinality(Until(e)) : e \in S}
  <2>1. \A e \in S : IsFiniteSet(Until(e)) /\ Cardinality(Until(e)) \in Nat
    BY <1>1, FS_Subset, FS_CardinalityType
  <2>2. PICK e \in S : \A d \in S : Cardinality(Until(e)) <= Cardinality(Until(d))
    <3>1. T \in SUBSET Nat /\ T # {}
      BY <2>1
    <3>2. PICK n \in T : \A m \in T : n <= m
      BY <3>1, LeastNatural
    <3> QED BY <3>2
  <2>3. ASSUME NEW d \in S, d # e, ~Before(At(f, e), At(f, d)) PROVE FALSE
    <3>1. d \in Until(e) /\ d \notin Until(d) /\ Until(d) \subseteq Until(e)
      BY <1>2, <2>3
    <3>2. Cardinality(Until(d)) <= Cardinality(Until(e)) /\ Cardinality(Until(d)) # Cardinality(Until(e))
      BY <2>1, <3>1, FS_Subset
    <3>3. Cardinality(Until(e)) <= Cardinality(Until(d))
      BY <2>2
    <3>4. Cardinality(Until(e)) \in Nat /\ Cardinality(Until(d)) \in Nat
      BY <2>1
    <3> HIDE DEF Until
    <3> QED BY <3>2, <3>3, <3>4
  <2> QED BY <2>3
<1> QED
  BY <1>3, <1>4

(* A page is what was found up to its checkpoint: nothing before that is   *)
(* left for later, and nothing after it is on the page.                    *)
LEMMA PageCut ==
    ASSUME NEW f \in Rows, NEW cursor
    PROVE  LET to == Checkpoint(f, cursor)
           IN  /\ Held(f) = {} => to = cursor
               /\ Held(f) # {} => \E e \in Held(f) : to = At(f, e)
               /\ Page(f) \subseteq Held(f)
               /\ \A e \in Held(f) : e \in Page(f) <=> ~Before(to, At(f, e))
<1>1. Page(f) \subseteq Held(f)
  BY DEF Page
<1>2. CASE Held(f) = {}
  BY <1>1, <1>2 DEF Checkpoint
<1>3. CASE Held(f) # {}
  <2> DEFINE Until(e) == {d \in Held(f) : Before(At(f, d), At(f, e))}
  <2>1. \A e \in Held(f) : IsFiniteSet(Until(e)) /\ Cardinality(Until(e)) \in Nat
    BY MirrorSets, FS_Subset, FS_CardinalityType DEF Held
  <2>2. \A e \in Held(f) : e \in Page(f) <=> Cardinality(Until(e)) < PageSize
    BY DEF Page
  <2>3. /\ \A e, d \in Held(f) : d = e \/ Before(At(f, d), At(f, e)) \/ Before(At(f, e), At(f, d))
        /\ \A e \in Held(f) : ~Before(At(f, e), At(f, e))
        /\ \A a, b, c \in Held(f) : Before(At(f, a), At(f, b)) /\ Before(At(f, b), At(f, c))
                                        => Before(At(f, a), At(f, c))
    BY Positions, BeforeIsAnOrder
  <2>4. Page(f) # {}
    <3>1. PICK e \in Held(f) : \A d \in Held(f) : d = e \/ Before(At(f, e), At(f, d))
      BY <1>3, Extremes
    <3>2. Until(e) = {}
      BY <2>3, <3>1
    <3>3. Cardinality(Until(e)) = 0
      BY <3>2, FS_EmptySet
    <3> QED
      BY <2>2, <3>3, MirrorConstants
  <2>5. PICK last \in Page(f) : /\ \A d \in Page(f) : d = last \/ Before(At(f, d), At(f, last))
                                /\ Checkpoint(f, cursor) = At(f, last)
    <3>1. \E e \in Page(f) : \A d \in Page(f) : d = e \/ Before(At(f, d), At(f, e))
      BY <1>1, <2>4, Extremes
    <3> QED
      BY <1>3, <3>1 DEF Checkpoint
  <2>6. ASSUME NEW e \in Held(f), Before(At(f, e), At(f, last)) PROVE e \in Page(f)
    <3>1. Until(e) \subseteq Until(last)
      BY <1>1, <2>3, <2>6
    <3>2. Cardinality(Until(e)) <= Cardinality(Until(last))
      BY <1>1, <2>1, <3>1, FS_Subset
    <3>3. /\ Cardinality(Until(last)) < PageSize /\ last \in Held(f)
          /\ Cardinality(Until(e)) \in Nat /\ Cardinality(Until(last)) \in Nat
      BY <1>1, <2>1, <2>2
    <3>4. Cardinality(Until(e)) < PageSize
      <4> HIDE DEF Until
      <4> QED BY <3>2, <3>3, MirrorConstants
    <3> QED
      BY <2>2, <3>4
  <2>7. ASSUME NEW e \in Held(f) PROVE e \in Page(f) <=> ~Before(At(f, last), At(f, e))
    BY <1>1, <2>3, <2>5, <2>6
  <2> QED
    BY <1>1, <1>3, <2>5, <2>7
<1> QED
  BY <1>2, <1>3

(* The queries of a page: one Title each, then all the Media.              *)
LEMMA QueriesOfAPage ==
    /\ Asked(0) = {} /\ Asked(NTitles) = Titles
    /\ \A k \in 0..NTitles : Asked(k) \subseteq Titles
    /\ \A k \in 0..NTitles : k < NTitles =>
          k + 1 \in 0..NTitles /\ Asked(k + 1) = Asked(k) \cup Source(k + 1) /\ Source(k + 1) \subseteq Titles
    /\ Source(NTitles + 1) = Media /\ NTitles + 1 \in 1..Queries
<1>1. Asked(0) = {} /\ Asked(NTitles) = Titles
  BY MirrorConstants DEF Asked, Titles
<1>2. ASSUME NEW k \in 0..NTitles, k < NTitles
      PROVE  Source(k + 1) = {NMedia + NTitles - k} /\ NMedia + NTitles - k \in Titles
  BY <1>2, MirrorConstants DEF Source, Queries, Titles
<1>3. ASSUME NEW k \in 0..NTitles, k < NTitles
      PROVE  Asked(k + 1) = Asked(k) \cup {NMedia + NTitles - k}
  BY <1>3, MirrorConstants DEF Asked, Titles
<1>4. Source(NTitles + 1) = Media /\ NTitles + 1 \in 1..Queries
  BY MirrorConstants DEF Source, Queries
<1>5. \A k \in 0..NTitles : Asked(k) \subseteq Titles
  BY DEF Asked
<1> QED
  BY <1>1, <1>2, <1>3, <1>4, <1>5, MirrorConstants

LEMMA StartIsBefore == Start \in Position /\ Start.at = 0 /\ Start.id = 0
  BY DEF Start, Position

LEMMA Beginnings ==
    ASSUME NEW b \in BOOLEAN, NEW p \in Position
    PROVE  /\ Begin(b, p) \in Walk
           /\ Begin(b, p).full = b /\ Begin(b, p).cursor = p /\ Begin(b, p).asked = 0
           /\ \A e \in Entities : Begin(b, p).carried[e] = Absent /\ Begin(b, p).found[e] = Absent
<1>1. Nothing \in Rows
  BY DEF Nothing, Rows
<1> QED
  BY <1>1, MirrorConstants DEF Begin, Walk, Nothing

\* The walk after a page.
Found(s)   == Answered(walk[s])
Cursor(s)  == Checkpoint(Found(s), walk[s].cursor)
Carried(s) == [e \in Entities |-> IF e \in Page(Found(s)) THEN Found(s)[e] ELSE walk[s].carried[e]]
Onwards(s) == [Begin(walk[s].full, Cursor(s)) EXCEPT !.carried = Carried(s)]

LEMMA ReadPageCases ==
    ASSUME NEW s \in Sweeps, ReadPage(s)
    PROVE  /\ phase[s] = "walk" /\ walk[s].asked = NTitles
           /\ UNCHANGED <<sharer, mirror, checkpoint, failures>>
           /\ \/ /\ Page(Found(s)) # Held(Found(s))
                 /\ phase' = [phase EXCEPT ![s] = "walk"] /\ walk' = [walk EXCEPT ![s] = Onwards(s)]
              \/ /\ Page(Found(s)) = Held(Found(s)) /\ ~walk[s].full /\ CarriesMedia(Carried(s))
                 /\ phase' = [phase EXCEPT ![s] = "walk"]
                 /\ walk' = [walk EXCEPT ![s] = Begin(TRUE, Start)]
              \/ /\ Page(Found(s)) = Held(Found(s)) /\ ~walk[s].full /\ Carried(s) = Nothing
                 /\ GoIdle(s)
              \/ /\ Page(Found(s)) = Held(Found(s)) /\ (walk[s].full \/ ~CarriesMedia(Carried(s)))
                 /\ phase' = [phase EXCEPT ![s] = "apply"] /\ walk' = [walk EXCEPT ![s] = Onwards(s)]
  BY DEF ReadPage, Found, Cursor, Carried, Onwards

-----------------------------------------------------------------------------
(* What is known of the feed and of every walk, however many overlap.      *)

(* What a query adds is what the rows are, after the cursor.               *)
LEMMA AnsweredEffect ==
    ASSUME FeedInv, NEW s \in Sweeps
    PROVE  /\ Found(s) \in Rows /\ Stamps(Found(s)) /\ ReadOf(Found(s))
           /\ \A e \in Entities :
                 /\ e \in Source(walk[s].asked + 1) /\ rows[e] # Absent /\ Before(walk[s].cursor, At(rows, e))
                        => Found(s)[e] = rows[e]
                 /\ ~(e \in Source(walk[s].asked + 1) /\ rows[e] # Absent /\ Before(walk[s].cursor, At(rows, e)))
                        => Found(s)[e] = walk[s].found[e]
           /\ \A e \in Entities : Found(s)[e] # Absent => Before(walk[s].cursor, At(Found(s), e))
<1> DEFINE w == walk[s]
           new == {e \in Entities : e \in Source(w.asked + 1) /\ rows[e] # Absent /\ Before(w.cursor, At(rows, e))}
<1>1. w \in Walk /\ WalkInv(w) /\ rows \in Rows /\ Stamps(rows)
  BY DEF FeedInv, TypeOK
<1>2. \A e \in Entities : e \in After(w.cursor, w.asked + 1) <=> e \in new
  BY DEF After
<1>3. Found(s) = [e \in Entities |-> IF e \in new THEN rows[e] ELSE w.found[e]]
  BY <1>2 DEF Found, Answered
<1>4. Found(s) \in Rows
  BY <1>1, <1>3 DEF Walk, Rows
<1>5. Stamps(Found(s)) /\ ReadOf(Found(s))
  BY <1>1, <1>3 DEF WalkInv, Stamps, ReadOf
<1>6. ASSUME NEW e \in Entities, Found(s)[e] # Absent PROVE Before(w.cursor, At(Found(s), e))
  BY <1>1, <1>3, <1>6 DEF WalkInv, At
<1> QED
  BY <1>3, <1>4, <1>5, <1>6

LEMMA OnwardsEffect ==
    ASSUME FeedInv, NEW s \in Sweeps, walk[s].asked = NTitles
    PROVE  /\ Onwards(s) \in Walk
           /\ Onwards(s).full = walk[s].full /\ Onwards(s).cursor = Cursor(s)
           /\ Onwards(s).carried = Carried(s) /\ Onwards(s).asked = 0
           /\ \A e \in Entities : Onwards(s).found[e] = Absent
           /\ Cursor(s) \in Position /\ Cursor(s).at <= clock
           /\ Cursor(s) = walk[s].cursor \/ Before(walk[s].cursor, Cursor(s))
           /\ Carried(s) \in Rows /\ Stamps(Carried(s)) /\ ReadOf(Carried(s))
           /\ \A e \in Entities :
                 /\ Found(s)[e] # Absent /\ ~Before(Cursor(s), At(Found(s), e)) => Carried(s)[e] = Found(s)[e]
                 /\ Found(s)[e] = Absent \/ Before(Cursor(s), At(Found(s), e)) => Carried(s)[e] = walk[s].carried[e]
                 /\ Page(Found(s)) = Held(Found(s)) /\ Found(s)[e] # Absent => Carried(s)[e] = Found(s)[e]
<1> DEFINE f == Found(s)
           w == walk[s]
<1>1. f \in Rows /\ Stamps(f) /\ ReadOf(f)
      /\ \A e \in Entities : f[e] # Absent => Before(w.cursor, At(f, e))
  BY AnsweredEffect
<1>2. w \in Walk /\ WalkInv(w) /\ clock \in Nat
  BY DEF FeedInv, TypeOK
<1>3. /\ Held(f) = {} => Cursor(s) = w.cursor
      /\ Held(f) # {} => \E e \in Held(f) : Cursor(s) = At(f, e)
      /\ Page(f) \subseteq Held(f)
      /\ \A e \in Held(f) : e \in Page(f) <=> ~Before(Cursor(s), At(f, e))
  BY <1>1, PageCut DEF Cursor
<1>4. \A e \in Entities : f[e] # Absent <=> e \in Held(f)
  BY DEF Held
<1>5. Cursor(s) \in Position /\ Cursor(s).at <= clock
      /\ (Cursor(s) = w.cursor \/ Before(w.cursor, Cursor(s)))
  <2>1. CASE Held(f) = {}
    BY <1>2, <1>3, <2>1 DEF Walk, WalkInv
  <2>2. CASE Held(f) # {}
    <3>1. PICK e \in Held(f) : Cursor(s) = At(f, e)
      BY <1>3, <2>2
    <3>2. e \in Entities /\ f[e] # Absent /\ At(f, e) \in Position /\ At(f, e).at = f[e].at
      BY <1>1, Positions DEF Held
    <3> QED
      BY <1>1, <3>1, <3>2 DEF Stamps
  <2> QED BY <2>1, <2>2
<1>6. \A e \in Entities : Carried(s)[e] = IF e \in Page(f) THEN f[e] ELSE w.carried[e]
  BY DEF Carried
<1>7. Carried(s) \in Rows
  BY <1>1, <1>2 DEF Carried, Walk, Rows
<1>8. Stamps(Carried(s)) /\ ReadOf(Carried(s))
  BY <1>1, <1>2, <1>6 DEF WalkInv, Stamps, ReadOf
<1>9. /\ Begin(w.full, Cursor(s)) \in Walk /\ Begin(w.full, Cursor(s)).full = w.full
      /\ Begin(w.full, Cursor(s)).cursor = Cursor(s) /\ Begin(w.full, Cursor(s)).asked = 0
      /\ \A e \in Entities : Begin(w.full, Cursor(s)).found[e] = Absent
  BY <1>2, <1>5, Beginnings DEF Walk
<1>10. /\ Onwards(s) \in Walk
       /\ Onwards(s).full = w.full /\ Onwards(s).cursor = Cursor(s)
       /\ Onwards(s).carried = Carried(s) /\ Onwards(s).asked = 0
       /\ \A e \in Entities : Onwards(s).found[e] = Absent
  BY <1>7, <1>9 DEF Onwards, Walk
<1> HIDE DEF f, w
<1>11. \A e \in Entities :
          /\ f[e] # Absent /\ ~Before(Cursor(s), At(f, e)) => Carried(s)[e] = f[e]
          /\ f[e] = Absent \/ Before(Cursor(s), At(f, e)) => Carried(s)[e] = w.carried[e]
          /\ Page(f) = Held(f) /\ f[e] # Absent => Carried(s)[e] = f[e]
  BY <1>3, <1>4, <1>6
<1> QED
  BY <1>5, <1>7, <1>8, <1>10, <1>11 DEF f, w

\* What any transaction of the sharer does to its rows, for all that follows.
Writes ==
    /\ clock' = clock + 1 /\ clock' \in 0..MaxChanges
    /\ rows' \in Rows
    /\ \A e \in Entities : rows'[e] # Absent => rows'[e] = rows[e] \/ rows'[e].at = clock + 1
    /\ \A t \in Titles : rows[t] # Absent => rows'[t] # Absent
    /\ \A m \in Media : rows[m] # Absent /\ rows'[m] # Absent => rows'[m] = rows[m]
    /\ \A m \in Media : rows[m] # Absent /\ rows'[m] = Absent =>
          /\ \E n \in Media : rows'[n] # Absent /\ rows'[n].at = clock + 1
          /\ \A s \in Sweeps : phase[s] = "walk" => m \in torn'
    /\ torn \subseteq torn' /\ torn' \subseteq retired' /\ retired' \subseteq Media
    /\ late' \subseteq Titles
    /\ \A e \in Entities : rows'[e] = rows[e] => (e \in late' <=> e \in late)
    /\ \A s \in Sweeps : \A t \in Asked(walk[s].asked) : t \notin late' => rows'[t] = rows[t]
    /\ UNCHANGED <<granted, grants, mirror, checkpoint, phase, walk, failures>>

LEMMA StampedRow ==
    ASSUME NEW c \in Nat, NEW h \in BOOLEAN
    PROVE  /\ [at |-> c, hidden |-> h] \in Row /\ [at |-> c, hidden |-> h] # Absent
           /\ [at |-> c, hidden |-> h].at = c
  BY MirrorConstants DEF Row

\* What a write of the Title t makes of the late ones.
LEMMA LateWrites ==
    ASSUME FeedInv, NEW t \in Titles, late' = Late(t), rows'[t] # rows[t],
           \A e \in Titles : e # t => rows'[e] = rows[e]
    PROVE  /\ late' \subseteq Titles
           /\ \A e \in Entities : rows'[e] = rows[e] => (e \in late' <=> e \in late)
           /\ \A s \in Sweeps : \A u \in Asked(walk[s].asked) : u \notin late' => rows'[u] = rows[u]
<1>1. late \subseteq Titles
  BY DEF FeedInv, TypeOK
<1>2. \A e : e \in late' <=> (e \in late /\ e # t) \/ (e = t /\ \E s \in Sweeps : e \in Asked(walk[s].asked))
  BY DEF Late
<1>3. \A s \in Sweeps : \A u \in Asked(walk[s].asked) : u \in Titles
  BY DEF Asked
<1> QED
  BY <1>1, <1>2, <1>3

LEMMA ChangeWrites ==
    ASSUME FeedInv, NEW t \in Titles, ChangeTitle(t)
    PROVE  Writes
<1>1. /\ clock \in Nat /\ clock + 1 \in Nat /\ clock + 1 \in 0..MaxChanges
      /\ rows \in Rows /\ clock' = clock + 1
  BY MirrorConstants DEF FeedInv, TypeOK, ChangeTitle
<1>2. PICK h \in BOOLEAN : rows' = [rows EXCEPT ![t] = [at |-> clock + 1, hidden |-> h]]
  BY <1>1 DEF ChangeTitle
<1>s. rows[t] # Absent => rows[t].at # clock + 1
  BY <1>1, MirrorSets DEF FeedInv, Stamps
<1>3. /\ [at |-> clock + 1, hidden |-> h] \in Row /\ [at |-> clock + 1, hidden |-> h] # Absent
      /\ [at |-> clock + 1, hidden |-> h].at = clock + 1
  BY <1>1, StampedRow, Zenon
<1>4. rows' \in Rows /\ rows'[t] = [at |-> clock + 1, hidden |-> h]
      /\ \A e \in Entities : e # t => rows'[e] = rows[e]
  BY <1>1, <1>2, <1>3, MirrorSets DEF Rows
<1>5. \A e \in Entities : rows'[e] # Absent => rows'[e] = rows[e] \/ rows'[e].at = clock + 1
  BY <1>3, <1>4
<1>6. \A m \in Media : rows'[m] = rows[m]
  BY <1>4, MirrorSets
<1>7. \A u \in Titles : rows[u] # Absent => rows'[u] # Absent
  BY <1>3, <1>4, MirrorSets
<1>8. torn \subseteq retired /\ retired \subseteq Media
  BY DEF FeedInv, TypeOK
<1>9. /\ late' \subseteq Titles
      /\ \A e \in Entities : rows'[e] = rows[e] => (e \in late' <=> e \in late)
      /\ \A s \in Sweeps : \A u \in Asked(walk[s].asked) : u \notin late' => rows'[u] = rows[u]
  <2>1. rows'[t] # rows[t] /\ (\A e \in Titles : e # t => rows'[e] = rows[e]) /\ late' = Late(t)
    BY <1>s, <1>3, <1>4, MirrorSets DEF ChangeTitle
  <2> QED
    BY <2>1, LateWrites
<1> QED
  BY <1>1, <1>4, <1>5, <1>6, <1>7, <1>8, <1>9 DEF Writes, ChangeTitle

LEMMA RebuildWrites ==
    ASSUME FeedInv, NEW t \in Titles, NEW old \in SUBSET Media, NEW new \in SUBSET Media,
           Rebuild(t, old, new)
    PROVE  Writes
<1> DEFINE row == [at |-> clock + 1, hidden |-> FALSE]
<1>1. clock \in Nat /\ clock + 1 \in 0..MaxChanges /\ rows \in Rows /\ clock' = clock + 1
  BY MirrorConstants DEF FeedInv, TypeOK, Rebuild
<1>2. row \in Row /\ row # Absent /\ row.at = clock + 1
  <2>1. clock + 1 \in Nat /\ row.at = clock + 1
    BY <1>1
  <2>2. row \in Row
    BY <2>1 DEF Row
  <2> QED
    BY <2>1, <2>2, MirrorSets
<1>3. /\ new # {} /\ (\A m \in new : rows[m] = Absent) /\ (\A m \in old : rows[m] # Absent)
      /\ retired' = retired \cup old
      /\ torn' = IF \E s \in Sweeps : phase[s] = "walk" THEN torn \cup old ELSE torn
  BY DEF Rebuild
<1>4. rows' = [e \in Entities |-> IF e \in old THEN Absent ELSE IF e \in new \cup {t} THEN row ELSE rows[e]]
  BY <1>1 DEF Rebuild
<1> HIDE DEF row
<1>5. rows' \in Rows
  BY <1>1, <1>2, <1>4 DEF Rows
<1>6. \A e \in Entities : rows'[e] # Absent => rows'[e] = rows[e] \/ rows'[e].at = clock + 1
  BY <1>2, <1>4
<1>7. \A u \in Titles : rows[u] # Absent => rows'[u] # Absent
  BY <1>2, <1>4, MirrorSets
<1>8. \A m \in Media : rows[m] # Absent /\ rows'[m] # Absent => rows'[m] = rows[m]
  BY <1>2, <1>3, <1>4, MirrorSets
<1>9. \A m \in Media : rows[m] # Absent /\ rows'[m] = Absent => m \in old
  BY <1>2, <1>4, MirrorSets
<1>10. \E n \in Media : rows'[n] # Absent /\ rows'[n].at = clock + 1
  <2>1. PICK n \in new : n \notin old
    BY <1>3
  <2>2. rows'[n] = row /\ n \in Media
    BY <1>4, <2>1, MirrorSets
  <2> QED
    BY <1>2, <2>2
<1>11. torn \subseteq torn' /\ torn' \subseteq retired' /\ retired' \subseteq Media
       /\ ((\E s \in Sweeps : phase[s] = "walk") => old \subseteq torn')
  BY <1>3 DEF FeedInv, TypeOK
<1>12. /\ late' \subseteq Titles
       /\ \A e \in Entities : rows'[e] = rows[e] => (e \in late' <=> e \in late)
       /\ \A s \in Sweeps : \A u \in Asked(walk[s].asked) : u \notin late' => rows'[u] = rows[u]
  <2>1. rows[t] # Absent => rows[t].at # clock + 1
    BY <1>1, MirrorSets DEF FeedInv, Stamps
  <2>2. rows'[t] = row /\ (\A e \in Titles : e # t => rows'[e] = rows[e])
    BY <1>4, MirrorSets
  <2>3. rows'[t] # rows[t] /\ late' = Late(t)
    BY <1>2, <2>1, <2>2 DEF Rebuild
  <2> QED
    BY <2>2, <2>3, LateWrites
<1> QED
  BY <1>1, <1>5, <1>6, <1>7, <1>8, <1>9, <1>10, <1>11, <1>12 DEF Writes, Rebuild

LEMMA FreshWalks ==
    /\ Begin(FALSE, Start) \in Walk /\ Begin(TRUE, Start) \in Walk
    /\ Begin(FALSE, Start).full = FALSE /\ Begin(TRUE, Start).full = TRUE
    /\ Begin(FALSE, Start).cursor = Start /\ Begin(TRUE, Start).cursor = Start
    /\ Begin(FALSE, Start).asked = 0 /\ Begin(TRUE, Start).asked = 0
    /\ \A e \in Entities :
          /\ Begin(FALSE, Start).carried[e] = Absent /\ Begin(FALSE, Start).found[e] = Absent
          /\ Begin(TRUE, Start).carried[e] = Absent /\ Begin(TRUE, Start).found[e] = Absent
    /\ clock \in Nat => WalkInv(Begin(FALSE, Start)) /\ WalkInv(Begin(TRUE, Start))
<1>1. Nothing \in Rows /\ \A e \in Entities : Nothing[e] = Absent
  BY DEF Nothing, Rows
<1>2. /\ Begin(FALSE, Start) \in Walk /\ Begin(TRUE, Start) \in Walk
      /\ Begin(FALSE, Start).full = FALSE /\ Begin(TRUE, Start).full = TRUE
      /\ Begin(FALSE, Start).cursor = Start /\ Begin(TRUE, Start).cursor = Start
      /\ Begin(FALSE, Start).asked = 0 /\ Begin(TRUE, Start).asked = 0
      /\ Begin(FALSE, Start).carried = Nothing /\ Begin(FALSE, Start).found = Nothing
      /\ Begin(TRUE, Start).carried = Nothing /\ Begin(TRUE, Start).found = Nothing
  BY <1>1, StartIsBefore, MirrorConstants DEF Begin, Walk
<1>3. clock \in Nat => WalkInv(Begin(FALSE, Start)) /\ WalkInv(Begin(TRUE, Start))
  <2>1. ASSUME NEW w, clock \in Nat, w.cursor = Start, w.carried = Nothing, w.found = Nothing
        PROVE  WalkInv(w)
    BY <1>1, <2>1, StartIsBefore DEF WalkInv, Stamps, ReadOf
  <2> QED
    BY <1>2, <2>1, Zenon
<1> QED
  BY <1>1, <1>2, <1>3

LEMMA FeedInvInit == Init => FeedInv
<1> SUFFICES ASSUME Init PROVE FeedInv
  OBVIOUS
<1>0. Start \in Position /\ Start.at = 0
  BY StartIsBefore
<1>1. Nothing \in Rows /\ \A e \in Entities : Nothing[e] = Absent
  BY DEF Nothing, Rows
<1>2. \A s \in Sweeps : walk[s] = Begin(FALSE, Start)
  BY DEF Init
<1>3. \A s \in Sweeps : WalkInv(walk[s])
  BY <1>2, FreshWalks DEF Init
<1>4. walk \in [Sweeps -> Walk]
  BY FreshWalks DEF Init
<1>5. TypeOK
  <2>1. /\ rows \in Rows /\ mirror \in Rows /\ checkpoint \in Position /\ checkpoint.at <= clock
        /\ \A e \in Entities : rows[e] # Absent => rows[e].at \in 1..clock
    BY <1>0, <1>1 DEF Init
  <2>2. phase \in [Sweeps -> {"idle", "granted", "ungranted", "walk", "apply", "applied"}]
    BY DEF Init
  <2> QED
    <3>1. /\ clock \in 0..MaxChanges /\ torn \subseteq retired /\ retired \subseteq Media
          /\ granted \in BOOLEAN /\ grants \in 0..MaxGrants /\ failures \in 0..MaxFailures
          /\ late \subseteq Titles
      BY MirrorConstants DEF Init
    <3> QED
      BY <1>4, <2>1, <2>2, <3>1 DEF TypeOK
<1> QED
  BY <1>1, <1>3, <1>5 DEF FeedInv, Stamps, Init

(* A write makes what was read old, not wrong.                             *)
LEMMA FeedWrites == FeedInv /\ Writes => FeedInv'
<1> SUFFICES ASSUME FeedInv, Writes PROVE FeedInv'
  OBVIOUS
<1>1. clock \in Nat /\ clock' = clock + 1
  BY DEF FeedInv, TypeOK, Writes
<1>2. \A f : Stamps(f) => Stamps(f)'
  BY <1>1 DEF Stamps
<1>3. Stamps(rows)'
  BY <1>1 DEF FeedInv, Writes, Stamps
<1>4. ASSUME NEW f \in Rows, Stamps(f), ReadOf(f) PROVE ReadOf(f)'
  <2> SUFFICES ASSUME NEW e \in Entities, f[e] # Absent, rows'[e] # Absent
               PROVE  rows'[e] = f[e] \/ f[e].at < rows'[e].at
    BY DEF ReadOf
  <2>1. f[e].at \in 1..clock
    BY <1>4 DEF Stamps
  <2>2. CASE rows'[e] = rows[e]
    BY <1>4, <2>2 DEF ReadOf
  <2>3. CASE rows'[e].at = clock + 1
    BY <1>1, <2>1, <2>3
  <2> QED
    BY <2>2, <2>3 DEF Writes
<1>5. ASSUME NEW s \in Sweeps PROVE WalkInv(walk[s])'
  <2>1. walk'[s] = walk[s] /\ walk[s] \in Walk /\ WalkInv(walk[s])
    BY DEF FeedInv, TypeOK, Writes
  <2>2. walk[s].carried \in Rows /\ walk[s].found \in Rows /\ walk[s].cursor.at \in Nat
    BY <2>1 DEF Walk, Position
  <2> QED
    BY <1>1, <1>2, <1>4, <2>1, <2>2 DEF WalkInv
<1>6. TypeOK'
  <2>1. clock' \in 0..MaxChanges /\ \A e \in Entities : rows'[e] # Absent => rows'[e].at \in 1..clock'
    BY <1>3 DEF Writes, Stamps
  <2>2. checkpoint.at \in Nat
    BY DEF FeedInv, TypeOK, Position
  <2> QED
    BY <1>1, <2>1, <2>2 DEF FeedInv, TypeOK, Writes
<1> QED
  BY <1>3, <1>5, <1>6 DEF FeedInv

(* A sweep's step leaves the feed alone and its own walk well made.        *)
LEMMA FeedSweeps ==
    ASSUME FeedInv, UNCHANGED <<rows, clock, retired, torn>>, late' \subseteq Titles,
           granted' \in BOOLEAN, grants' \in 0..MaxGrants, failures' \in 0..MaxFailures,
           mirror' \in Rows, checkpoint' \in Position, checkpoint'.at <= clock,
           phase' \in [Sweeps -> {"idle", "granted", "ungranted", "walk", "apply", "applied"}],
           walk' \in [Sweeps -> Walk],
           \A s \in Sweeps : walk'[s] = walk[s] \/ WalkInv(walk'[s])
    PROVE  FeedInv'
<1>1. ASSUME NEW s \in Sweeps PROVE WalkInv(walk[s])'
  <2>1. WalkInv(walk'[s])
    BY DEF FeedInv
  <2> QED
    BY <2>1 DEF WalkInv, Stamps, ReadOf
<1>2. TypeOK'
  BY DEF FeedInv, TypeOK
<1> QED
  BY <1>1, <1>2 DEF FeedInv, Stamps

LEMMA BeginningsFit ==
    ASSUME FeedInv, NEW b \in BOOLEAN, NEW p \in Position, p.at <= clock
    PROVE  Begin(b, p) \in Walk /\ WalkInv(Begin(b, p))
<1>1. /\ Begin(b, p) \in Walk
      /\ Begin(b, p).full = b /\ Begin(b, p).cursor = p /\ Begin(b, p).asked = 0
      /\ \A e \in Entities : Begin(b, p).carried[e] = Absent /\ Begin(b, p).found[e] = Absent
  BY Beginnings
<1> QED
  BY <1>1 DEF WalkInv, Stamps, ReadOf

LEMMA FeedInvStep == FeedInv /\ [Next]_vars => FeedInv'
<1> SUFFICES ASSUME FeedInv, [Next]_vars PROVE FeedInv'
  OBVIOUS
<1> USE MirrorConstants
<1>0. /\ granted \in BOOLEAN /\ grants \in 0..MaxGrants /\ failures \in 0..MaxFailures
      /\ late \subseteq Titles
      /\ rows \in Rows /\ mirror \in Rows /\ checkpoint \in Position /\ checkpoint.at <= clock /\ clock \in Nat
      /\ phase \in [Sweeps -> {"idle", "granted", "ungranted", "walk", "apply", "applied"}]
      /\ walk \in [Sweeps -> Walk] /\ \A s \in Sweeps : WalkInv(walk[s])
  BY DEF FeedInv, TypeOK
<1>b. /\ Begin(FALSE, Start) \in Walk /\ WalkInv(Begin(FALSE, Start))
      /\ Begin(TRUE, Start) \in Walk /\ WalkInv(Begin(TRUE, Start))
      /\ Start \in Position /\ Start.at <= clock
  <2>1. Start \in Position /\ Start.at <= clock
    BY <1>0, StartIsBefore
  <2> QED
    BY <1>0, <2>1, FreshWalks, Zenon
<1>h. [e \in Entities |-> IF e \in Titles /\ mirror[e] # Absent
                          THEN [mirror[e] EXCEPT !.hidden = TRUE] ELSE mirror[e]] \in Rows
  BY <1>0 DEF Rows, Row
<1>1. CASE UNCHANGED vars
  BY <1>1, <1>0, FeedSweeps DEF vars, sharer
<1>2. ASSUME NEW t \in Titles, ChangeTitle(t) PROVE FeedInv'
  BY <1>2, ChangeWrites, FeedWrites
<1>3. ASSUME NEW t \in Titles, NEW old \in SUBSET Media, NEW new \in SUBSET Media, Rebuild(t, old, new)
      PROVE  FeedInv'
  BY <1>3, RebuildWrites, FeedWrites
<1>4. CASE ChangeGrant
  BY <1>4, <1>0, FeedSweeps DEF ChangeGrant
<1>5. CASE Restart
  <2>1. phase' \in [Sweeps -> {"idle", "granted", "ungranted", "walk", "apply", "applied"}]
        /\ walk' \in [Sweeps -> Walk] /\ (\A s \in Sweeps : WalkInv(walk'[s])) /\ failures' \in 0..MaxFailures
    <3> HIDE DEF Begin, Start
    <3>1. failures' \in 0..MaxFailures
      BY <1>5, <1>0 DEF Restart
    <3>2. phase' = [r \in Sweeps |-> "idle"] /\ walk' = [r \in Sweeps |-> Begin(FALSE, Start)]
      BY <1>5 DEF Restart
    <3> QED
      BY <1>b, <3>1, <3>2
  <2> QED
    BY <1>5, <1>0, <2>1, FeedSweeps DEF Restart, sharer
<1>6. ASSUME NEW s \in Sweeps, GoIdle(s)
      PROVE  /\ phase' \in [Sweeps -> {"idle", "granted", "ungranted", "walk", "apply", "applied"}]
             /\ walk' \in [Sweeps -> Walk]
             /\ \A r \in Sweeps : walk'[r] = walk[r] \/ WalkInv(walk'[r])
  BY <1>6, <1>0, <1>b DEF GoIdle
<1>7. ASSUME NEW s \in Sweeps, SweepSteps(s) \/ Resync(s) \/ SweepFails(s) PROVE FeedInv'
  <2>1. CASE ReadGrants(s)
    BY <2>1, <1>0, FeedSweeps DEF ReadGrants, sharer
  <2>2. CASE TombstoneMirror(s)
    BY <2>2, <1>0, <1>b, <1>h, <1>6, FeedSweeps DEF TombstoneMirror, sharer
  <2>3. CASE PullLibrary(s)
    <3>1. Begin(checkpoint = Start, checkpoint) \in Walk /\ WalkInv(Begin(checkpoint = Start, checkpoint))
      BY <1>0, BeginningsFit
    <3> HIDE DEF Begin
    <3>2. /\ phase' \in [Sweeps -> {"idle", "granted", "ungranted", "walk", "apply", "applied"}]
          /\ walk' \in [Sweeps -> Walk]
          /\ \A r \in Sweeps : walk'[r] = walk[r] \/ WalkInv(walk'[r])
      BY <2>3, <1>0, <3>1 DEF PullLibrary
    <3> QED
      BY <2>3, <1>0, <3>2, FeedSweeps DEF PullLibrary, sharer
  <2>4. CASE QuerySource(s)
    <3> DEFINE w == [walk[s] EXCEPT !.asked = @ + 1, !.found = Found(s)]
    <3>1. /\ Found(s) \in Rows /\ Stamps(Found(s)) /\ ReadOf(Found(s))
          /\ \A e \in Entities : ~(e \in Source(walk[s].asked + 1)) => Found(s)[e] = walk[s].found[e]
          /\ \A e \in Entities : Found(s)[e] # Absent => Before(walk[s].cursor, At(Found(s), e))
      BY AnsweredEffect
    <3>2. walk[s] \in Walk /\ WalkInv(walk[s]) /\ walk[s].asked \in 0..NTitles /\ walk[s].asked < NTitles
      BY <1>0, <2>4 DEF Walk, QuerySource
    <3>3. /\ w \in Walk /\ w.cursor = walk[s].cursor /\ w.carried = walk[s].carried
          /\ w.asked = walk[s].asked + 1 /\ w.found = Found(s)
      <4>1. walk[s].asked + 1 \in 0..NTitles
        BY <3>2
      <4> QED
        BY <3>1, <3>2, <4>1 DEF Walk
    <3>4. \A e \in Entities : Found(s)[e] # Absent => e \in Asked(walk[s].asked + 1)
      BY <3>1, <3>2, QueriesOfAPage DEF WalkInv
    <3>5. WalkInv(w)
      BY <3>1, <3>2, <3>3, <3>4 DEF WalkInv
    <3>6. walk' = [walk EXCEPT ![s] = w]
      BY <2>4, <1>0 DEF QuerySource, Found
    <3> HIDE DEF w
    <3>7. walk' \in [Sweeps -> Walk] /\ \A r \in Sweeps : walk'[r] = walk[r] \/ WalkInv(walk'[r])
      BY <3>3, <3>5, <3>6, <1>0
    <3> QED
      BY <2>4, <1>0, <3>7, FeedSweeps DEF QuerySource, sharer
  <2>5. CASE ReadPage(s)
    <3>1. /\ phase[s] = "walk" /\ walk[s].asked = NTitles
          /\ UNCHANGED <<sharer, mirror, checkpoint, failures>>
          /\ \/ GoIdle(s)
             \/ /\ phase' = [phase EXCEPT ![s] = "walk"] \/ phase' = [phase EXCEPT ![s] = "apply"]
                /\ \/ walk' = [walk EXCEPT ![s] = Onwards(s)]
                   \/ walk' = [walk EXCEPT ![s] = Begin(TRUE, Start)]
      BY <2>5, ReadPageCases
    <3>2. Onwards(s) \in Walk /\ WalkInv(Onwards(s))
      BY <3>1, OnwardsEffect DEF WalkInv, Stamps, ReadOf
    <3>3. /\ phase' \in [Sweeps -> {"idle", "granted", "ungranted", "walk", "apply", "applied"}]
          /\ walk' \in [Sweeps -> Walk]
          /\ \A r \in Sweeps : walk'[r] = walk[r] \/ WalkInv(walk'[r])
      BY <3>1, <3>2, <1>0, <1>b, <1>6
    <3> QED
      BY <3>1, <3>3, <1>0, FeedSweeps DEF sharer
  <2>6. CASE WalkRefused(s)
    BY <2>6, <1>0, <1>6, FeedSweeps DEF WalkRefused, sharer
  <2>7. CASE ApplyMirror(s)
    <3>1. mirror' \in Rows
      BY <2>7, <1>0 DEF ApplyMirror, Rows, Walk
    <3>2. /\ phase' \in [Sweeps -> {"idle", "granted", "ungranted", "walk", "apply", "applied"}]
          /\ walk' \in [Sweeps -> Walk]
          /\ \A r \in Sweeps : walk'[r] = walk[r] \/ WalkInv(walk'[r])
      BY <2>7, <1>0, <1>6 DEF ApplyMirror, Applied
    <3> QED
      BY <2>7, <1>0, <3>1, <3>2, FeedSweeps DEF ApplyMirror, CatchUp
  <2>8. CASE SetLibraryCheckpoint(s)
    <3>1. checkpoint' \in Position /\ checkpoint'.at <= clock
      BY <2>8, <1>0 DEF SetLibraryCheckpoint, Walk, WalkInv
    <3> QED
      BY <2>8, <1>0, <1>6, <3>1, FeedSweeps DEF SetLibraryCheckpoint, sharer
  <2>9. CASE Resync(s)
    <3>1. walk' \in [Sweeps -> Walk] /\ \A r \in Sweeps : walk'[r] = walk[r] \/ WalkInv(walk'[r])
      BY <2>9, <1>0, <1>b DEF Resync
    <3> QED
      BY <2>9, <1>0, <3>1, FeedSweeps DEF Resync, sharer
  <2>10. CASE SweepFails(s)
    <3>1. failures' \in 0..MaxFailures
      BY <2>10, <1>0 DEF SweepFails
    <3> QED
      BY <2>10, <1>0, <1>6, <3>1, FeedSweeps DEF SweepFails, sharer
  <2> QED
    BY <1>7, <2>1, <2>2, <2>3, <2>4, <2>5, <2>6, <2>7, <2>8, <2>9, <2>10 DEF SweepSteps
<1> QED
  BY <1>1, <1>2, <1>3, <1>4, <1>5, <1>7 DEF Next

LEMMA FeedInvariant == Spec => []FeedInv
  BY FeedInvInit, FeedInvStep, PTL DEF Spec

(* The mirror's and the feed's variables keep their types, and no stamp,   *)
(* cursor or checkpoint is ahead of the sharer's clock, however many       *)
(* sweeps of a Link overlap.                                               *)
THEOREM MirrorTypes == Spec => []TypeOK
<1>1. FeedInv => TypeOK
  BY DEF FeedInv
<1> QED
  BY <1>1, FeedInvariant, PTL

-----------------------------------------------------------------------------
(* One sweep at a time, with a write between any two of its steps.         *)

\* Nothing but where the sweeps are has changed, and none has gone on.
Rests ==
    /\ UNCHANGED <<rows, clock, torn, late, mirror, checkpoint>>
    /\ \A r \in Sweeps :
          \/ phase'[r] = phase[r] /\ walk'[r] = walk[r]
          \/ /\ phase'[r] \in {"idle", "granted", "ungranted"}
             /\ walk'[r] = walk[r] \/ walk'[r] = Begin(FALSE, Start)

LEMMA IdleRests ==
    ASSUME FeedInv, NEW s \in Sweeps, GoIdle(s), UNCHANGED <<rows, clock, torn, late, mirror, checkpoint>>
    PROVE  Rests
  BY DEF FeedInv, TypeOK, GoIdle, Rests

LEMMA NextCases ==
    ASSUME FeedInv, [Next]_vars
    PROVE  \/ Writes \/ Rests
           \/ \E s \in Sweeps : \/ PullLibrary(s) \/ Resync(s) \/ QuerySource(s) \/ ReadPage(s)
                                \/ ApplyMirror(s) \/ SetLibraryCheckpoint(s) \/ TombstoneMirror(s)
<1>0. /\ phase \in [Sweeps -> {"idle", "granted", "ungranted", "walk", "apply", "applied"}]
      /\ walk \in [Sweeps -> Walk]
  BY DEF FeedInv, TypeOK
<1>1. UNCHANGED vars \/ ChangeGrant => Rests
  BY DEF vars, sharer, ChangeGrant, Rests
<1>2. Restart => Rests
  BY DEF Restart, sharer, Rests
<1>3. ASSUME NEW s \in Sweeps, WalkRefused(s) \/ SweepFails(s) PROVE Rests
  BY <1>3, IdleRests DEF WalkRefused, SweepFails, sharer
<1>4. ASSUME NEW s \in Sweeps, ReadGrants(s) PROVE Rests
  BY <1>0, <1>4 DEF ReadGrants, sharer, Rests
<1> QED
  BY <1>1, <1>2, <1>3, <1>4, ChangeWrites, RebuildWrites DEF Next, SweepSteps

(* What is after a position when a write comes is after it still; what the *)
(* write stamps is after every position there is.                          *)
LEMMA WritesComeAfter ==
    ASSUME FeedInv, Writes, NEW p \in Position, p.at <= clock, NEW e \in Entities, rows'[e] # Absent
    PROVE  /\ rows'[e].at = clock + 1 => Before(p, At(rows', e))
           /\ rows[e] # Absent /\ Before(p, At(rows, e)) => Before(p, At(rows', e))
           /\ rows'[e] = rows[e] \/ Before(p, At(rows', e))
<1>1. clock \in Nat /\ p.at \in Nat /\ (rows'[e] = rows[e] \/ rows'[e].at = clock + 1)
  BY DEF FeedInv, TypeOK, Writes, Position
<1>2. rows'[e].at = clock + 1 => Before(p, At(rows', e))
  BY <1>1 DEF Before, At
<1>3. rows'[e] = rows[e] => At(rows', e) = At(rows, e)
  BY DEF At
<1> QED
  BY <1>1, <1>2, <1>3

LEMMA RowsAfterStart ==
    ASSUME FeedInv
    PROVE  \A e \in Entities : rows[e] # Absent => Before(Start, At(rows, e))
  BY StartIsBefore DEF FeedInv, Stamps, Before, At

LEMMA PullBegins ==
    ASSUME FeedInv, NEW s \in Sweeps, PullLibrary(s)
    PROVE  /\ phase[s] = "granted" /\ phase'[s] = "walk" /\ phase'[s] # "apply"
           /\ UNCHANGED <<rows, clock, torn, late, mirror, checkpoint>>
           /\ (walk'[s].full => checkpoint = Start) /\ (checkpoint = Start => walk'[s].full)
           /\ walk'[s].cursor = checkpoint /\ walk'[s].asked = 0
           /\ \A e \in Entities : walk'[s].carried[e] = Absent /\ walk'[s].found[e] = Absent
<1>1. phase[s] = "granted" /\ phase'[s] = "walk" /\ UNCHANGED <<rows, clock, torn, late, mirror, checkpoint>>
  BY DEF FeedInv, TypeOK, PullLibrary, sharer
<1>2. walk'[s] = [full |-> (checkpoint = Start), cursor |-> checkpoint, carried |-> Nothing,
                  asked |-> 0, found |-> Nothing]
  BY DEF FeedInv, TypeOK, PullLibrary, Begin
<1>3. \A e \in Entities : Nothing[e] = Absent
  BY DEF Nothing
<1>4. walk'[s].full = (checkpoint = Start)
  BY <1>2
<1>5. /\ walk'[s].cursor = checkpoint /\ walk'[s].asked = 0
      /\ walk'[s].carried = Nothing /\ walk'[s].found = Nothing
  BY <1>2
<1>6. (walk'[s].full => checkpoint = Start) /\ (checkpoint = Start => walk'[s].full)
  BY <1>4, Zenon
<1> QED
  BY <1>1, <1>3, <1>5, <1>6

-----------------------------------------------------------------------------
(* A mirrored Title is never removed.                                      *)

LEMMA TitleRests ==
    ASSUME TitleInv, UNCHANGED <<rows, mirror>>,
           \A r \in Sweeps : TitleKept(phase'[r], walk'[r])
    PROVE  TitleInv'
  BY DEF TitleInv, TitleKept, TitleThere

LEMMA TitleFresh ==
    ASSUME FeedInv, TitleThere(mirror), NEW w, NEW ph, ph # "apply", w.asked = 0,
           \A e \in Entities : w.carried[e] = Absent /\ w.found[e] = Absent,
           w.full => w.cursor = Start
    PROVE  TitleKept(ph, w)
  BY RowsAfterStart, QueriesOfAPage, MirrorSets DEF TitleKept, TitleThere

LEMMA TitleStep ==
    OneSweep /\ FeedInv /\ FeedInv' /\ TitleInv /\ [Next]_vars =>
        TitleInv' /\ \A t \in Titles : mirror[t] # Absent => mirror'[t] # Absent
<1> SUFFICES ASSUME OneSweep, FeedInv, FeedInv', TitleInv, [Next]_vars
             PROVE  TitleInv' /\ \A t \in Titles : mirror[t] # Absent => mirror'[t] # Absent
  OBVIOUS
<1>0. /\ phase \in [Sweeps -> {"idle", "granted", "ungranted", "walk", "apply", "applied"}]
      /\ walk \in [Sweeps -> Walk] /\ \A s \in Sweeps : WalkInv(walk[s])
      /\ clock \in Nat /\ Stamps(rows)
  BY MirrorConstants DEF FeedInv, TypeOK
<1>m. \A t \in Titles : t \in Entities /\ t \notin Media
  BY MirrorSets
<1>1. CASE Writes
  <2>1. \A f : TitleThere(f) => TitleThere(f)'
    BY <1>1 DEF TitleThere, Writes
  <2>2. ASSUME NEW s \in Sweeps PROVE TitleKept(phase[s], walk[s])'
    <3>1. walk[s].cursor \in Position /\ walk[s].cursor.at <= clock
      BY <1>0 DEF Walk, WalkInv
    <3>2. ASSUME NEW t \in Titles, mirror[t] # Absent, Before(walk[s].cursor, At(rows, t))
          PROVE  Before(walk[s].cursor, At(rows', t))
      <4>1. rows[t] # Absent /\ rows'[t] # Absent
        BY <1>1, <3>2 DEF TitleInv, TitleThere, Writes
      <4> QED
        BY <1>1, <1>m, <3>1, <3>2, <4>1, WritesComeAfter
    <3>3. phase'[s] = phase[s] /\ walk'[s] = walk[s] /\ mirror' = mirror
      BY <1>1 DEF Writes
    <3>4. TitleKept(phase[s], walk[s])
      BY DEF TitleInv
    <3> QED
      BY <2>1, <3>2, <3>3, <3>4 DEF TitleKept, At
  <2> QED
    BY <1>1, <2>1, <2>2 DEF TitleInv, TitleThere, Writes
<1>2. CASE Rests
  <2>1. ASSUME NEW r \in Sweeps PROVE TitleKept(phase'[r], walk'[r])
    <3>1. TitleKept(phase[r], walk[r])
      BY DEF TitleInv
    <3>2. CASE walk'[r] = Begin(FALSE, Start) /\ phase'[r] \in {"idle", "granted", "ungranted"}
      <4>1. phase'[r] # "apply"
        BY <3>2
      <4> QED
        BY <3>2, <4>1, TitleFresh, FreshWalks DEF TitleInv
    <3>3. CASE walk'[r] = walk[r] /\ phase'[r] \in {"idle", "granted", "ungranted"}
      BY <3>1, <3>3 DEF TitleKept
    <3> QED
      BY <1>2, <3>1, <3>2, <3>3 DEF Rests
  <2> QED
    BY <1>2, <2>1, TitleRests DEF Rests
<1>3. ASSUME NEW s \in Sweeps PROVE \A r \in Sweeps : r = s
  BY DEF OneSweep
<1>4. ASSUME NEW s \in Sweeps, PullLibrary(s) PROVE TitleInv' /\ mirror' = mirror
  <2>1. TitleKept(phase'[s], walk'[s]) /\ UNCHANGED <<rows, mirror>>
    BY <1>4, PullBegins, TitleFresh DEF TitleInv
  <2> QED
    BY <1>3, <2>1, TitleRests
<1>5. ASSUME NEW s \in Sweeps, Resync(s) PROVE TitleInv' /\ mirror' = mirror
  <2>1. phase'[s] = "walk" /\ walk'[s] = Begin(TRUE, Start) /\ UNCHANGED <<rows, mirror>>
    BY <1>0, <1>5 DEF Resync, sharer
  <2>2. TitleKept(phase'[s], walk'[s])
    BY <2>1, TitleFresh, FreshWalks DEF TitleInv
  <2> QED
    BY <1>3, <2>1, <2>2, TitleRests
<1>6. ASSUME NEW s \in Sweeps, QuerySource(s) PROVE TitleInv' /\ mirror' = mirror
  <2>1. /\ walk[s] \in Walk /\ walk[s].asked \in 0..NTitles /\ walk[s].asked < NTitles
        /\ phase'[s] = "walk" /\ phase[s] = "walk" /\ UNCHANGED <<rows, mirror>>
        /\ walk'[s] = [walk[s] EXCEPT !.asked = @ + 1, !.found = Found(s)]
    BY <1>0, <1>6 DEF QuerySource, Walk, Found, sharer
  <2>2. /\ walk'[s].full = walk[s].full /\ walk'[s].cursor = walk[s].cursor
        /\ walk'[s].carried = walk[s].carried /\ walk'[s].asked = walk[s].asked + 1
        /\ walk'[s].found = Found(s)
    BY <2>1 DEF Walk
  <2>3. /\ Asked(walk[s].asked + 1) = Asked(walk[s].asked) \cup Source(walk[s].asked + 1)
    BY <2>1, QueriesOfAPage
  <2>4. TitleThere(mirror) /\ TitleKept("walk", walk[s])
    BY <2>1 DEF TitleInv
  <2>5. \A e \in Entities :
           /\ e \in Source(walk[s].asked + 1) /\ rows[e] # Absent /\ Before(walk[s].cursor, At(rows, e))
                  => Found(s)[e] = rows[e]
           /\ Found(s)[e] = rows[e] \/ Found(s)[e] = walk[s].found[e]
    BY AnsweredEffect
  <2>6. TitleThere(Found(s))
    BY <1>m, <2>4, <2>5 DEF TitleThere, TitleKept
  <2>7. ASSUME NEW t \in Titles, walk[s].full, mirror[t] # Absent, t \in Asked(walk[s].asked + 1),
               walk[s].carried[t] = Absent
        PROVE  Found(s)[t] # Absent
    <3>1. rows[t] # Absent /\ t \in Entities
      BY <1>m, <2>4, <2>7 DEF TitleThere
    <3>2. CASE t \in Asked(walk[s].asked)
      BY <2>4, <2>5, <2>7, <3>1, <3>2 DEF TitleKept
    <3>3. CASE t \in Source(walk[s].asked + 1)
      BY <2>4, <2>5, <2>7, <3>1, <3>3 DEF TitleKept
    <3> QED
      BY <2>3, <2>7, <3>2, <3>3
  <2>8. TitleKept(phase'[s], walk'[s])
    BY <2>1, <2>2, <2>4, <2>6, <2>7 DEF TitleKept
  <2> QED
    BY <1>3, <2>1, <2>8, TitleRests
<1>7. ASSUME NEW s \in Sweeps, ReadPage(s) PROVE TitleInv' /\ mirror' = mirror
  <2>0. /\ phase[s] = "walk" /\ walk[s].asked = NTitles /\ UNCHANGED <<rows, mirror>>
        /\ TitleThere(mirror) /\ TitleKept("walk", walk[s])
    BY <1>7, ReadPageCases DEF TitleInv, sharer
  <2>1. CASE GoIdle(s)
    <3>1. phase'[s] = "idle" /\ walk'[s] = Begin(FALSE, Start)
      BY <1>0, <2>1 DEF GoIdle
    <3>2. TitleKept(phase'[s], walk'[s])
      BY <3>1, TitleFresh, FreshWalks DEF TitleInv
    <3> QED
      BY <1>3, <2>0, <3>2, TitleRests
  <2>2. CASE phase' = [phase EXCEPT ![s] = "walk"] /\ walk' = [walk EXCEPT ![s] = Begin(TRUE, Start)]
    <3>1. phase'[s] = "walk" /\ walk'[s] = Begin(TRUE, Start)
      BY <1>0, <2>2
    <3>2. TitleKept(phase'[s], walk'[s])
      BY <3>1, TitleFresh, FreshWalks DEF TitleInv
    <3> QED
      BY <1>3, <2>0, <3>2, TitleRests
  <2>3. ASSUME NEW ph \in {"walk", "apply"}, ph = "apply" => Page(Found(s)) = Held(Found(s)),
               phase' = [phase EXCEPT ![s] = ph], walk' = [walk EXCEPT ![s] = Onwards(s)]
        PROVE  TitleInv'
    <3>1. phase'[s] = ph /\ walk'[s] = Onwards(s)
      BY <1>0, <2>3
    <3>2. /\ Onwards(s).full = walk[s].full /\ Onwards(s).cursor = Cursor(s)
          /\ Onwards(s).carried = Carried(s) /\ Onwards(s).asked = 0
          /\ \A e \in Entities : Onwards(s).found[e] = Absent
          /\ Cursor(s) \in Position
          /\ \A e \in Entities :
                /\ Found(s)[e] # Absent /\ ~Before(Cursor(s), At(Found(s), e)) => Carried(s)[e] = Found(s)[e]
                /\ Carried(s)[e] = Found(s)[e] \/ Carried(s)[e] = walk[s].carried[e]
                /\ Found(s)[e] = Absent \/ Before(Cursor(s), At(Found(s), e)) => Carried(s)[e] = walk[s].carried[e]
                /\ Page(Found(s)) = Held(Found(s)) /\ Found(s)[e] # Absent => Carried(s)[e] = Found(s)[e]
      BY <2>0, OnwardsEffect
    <3>3. Found(s) \in Rows /\ ReadOf(Found(s)) /\ Stamps(Found(s))
          /\ \A t \in Titles : Found(s)[t] = walk[s].found[t]
      BY <1>m, <2>0, AnsweredEffect, QueriesOfAPage
    <3>4. TitleThere(Carried(s)) /\ TitleThere(Found(s))
      BY <1>m, <2>0, <3>2, <3>3 DEF TitleThere, TitleKept
    <3>5. ASSUME NEW t \in Titles, walk[s].full, mirror[t] # Absent, Carried(s)[t] = Absent
          PROVE  /\ Found(s)[t] # Absent /\ Before(Cursor(s), At(Found(s), t))
                 /\ Page(Found(s)) # Held(Found(s))
                 /\ Before(Cursor(s), At(rows, t))
      <4>1. walk[s].carried[t] # Absent \/ Found(s)[t] # Absent
        BY <2>0, <3>3, <3>5, QueriesOfAPage DEF TitleKept
      <4>2. Found(s)[t] # Absent /\ Before(Cursor(s), At(Found(s), t)) /\ Page(Found(s)) # Held(Found(s))
        BY <1>m, <3>2, <3>5, <4>1
      <4>3. rows[t] = Found(s)[t] \/ Found(s)[t].at < rows[t].at
        BY <1>m, <3>3, <3>4, <4>2 DEF ReadOf, TitleThere
      <4>4. Found(s)[t].at \in Nat /\ rows[t].at \in Nat /\ Cursor(s).at \in Nat
        BY <1>0, <1>m, <3>2, <3>3, <3>4, <4>2 DEF Stamps, TitleThere, Position
      <4>5. Before(Cursor(s), At(rows, t))
        BY <4>2, <4>3, <4>4 DEF Before, At
      <4> QED
        BY <4>2, <4>5
    <3>6. TitleThere(Onwards(s).found)
      BY <1>m, <3>2 DEF TitleThere
    <3>7. TitleKept(ph, Onwards(s))
      BY <2>3, <3>2, <3>4, <3>5, <3>6, QueriesOfAPage DEF TitleKept
    <3> QED
      BY <1>3, <2>0, <3>1, <3>7, TitleRests
  <2> QED
    BY <1>7, <2>0, <2>1, <2>2, <2>3, ReadPageCases
<1>8. ASSUME NEW s \in Sweeps, ApplyMirror(s)
      PROVE  TitleInv' /\ \A t \in Titles : mirror[t] # Absent => mirror'[t] # Absent
  <2>1. TitleThere(mirror) /\ TitleKept("apply", walk[s]) /\ rows' = rows
    BY <1>8 DEF TitleInv, ApplyMirror, CatchUp
  <2>2. \A t \in Titles : mirror'[t] = IF walk[s].carried[t] # Absent THEN walk[s].carried[t]
                                       ELSE IF walk[s].full THEN Absent ELSE mirror[t]
    BY <1>8, <1>m DEF ApplyMirror
  <2>3. TitleThere(mirror)'
    BY <2>1, <2>2 DEF TitleThere, TitleKept
  <2>4. \A t \in Titles : mirror[t] # Absent => mirror'[t] # Absent
    BY <2>1, <2>2 DEF TitleKept
  <2>5. CASE GoIdle(s)
    <3>1. phase'[s] = "idle" /\ walk'[s] = Begin(FALSE, Start)
      BY <1>0, <2>5 DEF GoIdle
    <3>2. TitleThere(walk'[s].carried) /\ TitleThere(walk'[s].found) /\ ~walk'[s].full
      BY <1>m, <3>1, FreshWalks DEF TitleThere
    <3> QED
      BY <1>3, <2>1, <2>3, <2>4, <3>2 DEF TitleInv, TitleKept, TitleThere
  <2>6. CASE phase' = [phase EXCEPT ![s] = "applied"] /\ UNCHANGED walk
    <3>1. phase'[s] = "applied" /\ walk'[s] = walk[s]
      BY <1>0, <2>6
    <3> QED
      BY <1>3, <2>1, <2>3, <2>4, <3>1 DEF TitleInv, TitleKept, TitleThere
  <2> QED
    BY <1>8, <2>5, <2>6 DEF ApplyMirror, Applied
<1>9. ASSUME NEW s \in Sweeps, SetLibraryCheckpoint(s) PROVE TitleInv' /\ mirror' = mirror
  <2>1. phase'[s] = "idle" /\ walk'[s] = Begin(FALSE, Start) /\ UNCHANGED <<rows, mirror>>
    BY <1>0, <1>9 DEF SetLibraryCheckpoint, GoIdle, sharer
  <2>2. TitleKept(phase'[s], walk'[s])
    BY <2>1, TitleFresh, FreshWalks DEF TitleInv
  <2> QED
    BY <1>3, <2>1, <2>2, TitleRests
<1>10. ASSUME NEW s \in Sweeps, TombstoneMirror(s)
       PROVE  TitleInv' /\ \A t \in Titles : mirror[t] # Absent => mirror'[t] # Absent
  <2>1. /\ phase'[s] = "idle" /\ walk'[s] = Begin(FALSE, Start) /\ rows' = rows
    BY <1>0, <1>10 DEF TombstoneMirror, GoIdle, sharer
  <2>2. \A t \in Titles : mirror[t] # Absent <=> mirror'[t] # Absent
    <3>1. ASSUME NEW t \in Titles, mirror[t] # Absent PROVE mirror'[t] # Absent
      <4>1. mirror[t] \in Row
        BY <1>m, <3>1 DEF FeedInv, TypeOK, Rows
      <4>2. [mirror[t] EXCEPT !.hidden = TRUE] \in Row
        BY <4>1 DEF Row
      <4> QED
        BY <1>10, <1>m, <3>1, <4>2, MirrorSets DEF TombstoneMirror
    <3> QED
      BY <1>10, <1>m, <3>1 DEF TombstoneMirror
  <2>3. TitleThere(walk'[s].carried) /\ TitleThere(walk'[s].found) /\ ~walk'[s].full
    BY <1>m, <2>1, FreshWalks DEF TitleThere
  <2> QED
    BY <1>3, <2>1, <2>2, <2>3 DEF TitleInv, TitleKept, TitleThere
<1> QED
  BY <1>1, <1>2, <1>4, <1>5, <1>6, <1>7, <1>8, <1>9, <1>10, NextCases DEF Writes, Rests

-----------------------------------------------------------------------------
(* No Media is mirrored that the sharer has removed and the feed forgot.   *)

LEMMA NewsStays ==
    ASSUME FeedInv, Writes, NEW p \in Position, p.at <= clock
    PROVE  /\ NewsAfter(p) => (\E n \in Media : rows'[n] # Absent /\ Before(p, At(rows', n)))
           /\ (\E m \in Media : rows[m] # Absent /\ rows'[m] = Absent) =>
                 (\E n \in Media : rows'[n] # Absent /\ Before(p, At(rows', n)))
<1>1. \A n \in Media : n \in Entities
  BY MirrorSets
<1>2. (\E m \in Media : rows[m] # Absent /\ rows'[m] = Absent) =>
         (\E n \in Media : rows'[n] # Absent /\ Before(p, At(rows', n)))
  BY <1>1, WritesComeAfter DEF Writes
<1>3. ASSUME NEW n \in Media, rows[n] # Absent, Before(p, At(rows, n))
      PROVE  \E k \in Media : rows'[k] # Absent /\ Before(p, At(rows', k))
  <2>1. CASE rows'[n] = Absent
    BY <1>2, <1>3, <2>1
  <2>2. CASE rows'[n] # Absent
    BY <1>1, <1>3, <2>2, WritesComeAfter
  <2> QED BY <2>1, <2>2
<1> QED
  BY <1>2, <1>3 DEF NewsAfter

LEMMA PhantomRests ==
    ASSUME PhantomInv, UNCHANGED <<rows, torn, mirror, checkpoint>>,
           \A r \in Sweeps : PhantomsTold(phase'[r], walk'[r])
    PROVE  PhantomInv'
  BY DEF PhantomInv, PhantomsTold, Phantoms, NewsAfter

LEMMA PhantomStep == OneSweep /\ FeedInv /\ FeedInv' /\ PhantomInv /\ [Next]_vars => PhantomInv'
<1> SUFFICES ASSUME OneSweep, FeedInv, FeedInv', PhantomInv, [Next]_vars
             PROVE  PhantomInv'
  OBVIOUS
<1>0. /\ phase \in [Sweeps -> {"idle", "granted", "ungranted", "walk", "apply", "applied"}]
      /\ walk \in [Sweeps -> Walk] /\ \A s \in Sweeps : WalkInv(walk[s])
      /\ clock \in Nat /\ checkpoint \in Position /\ checkpoint.at <= clock
  BY MirrorConstants DEF FeedInv, TypeOK
<1>m. \A m \in Media : m \in Entities /\ m \notin Titles
  BY MirrorSets
<1>1. CASE Writes
  <2> DEFINE Removed == \E m \in Media : rows[m] # Absent /\ rows'[m] = Absent
             Phantoms2(f) == {m \in Media : f[m] # Absent /\ rows'[m] = Absent /\ m \notin torn'}
             News2(p) == \E n \in Media : rows'[n] # Absent /\ Before(p, At(rows', n))
  <2>1. \A p \in Position : p.at <= clock => (NewsAfter(p) => News2(p)) /\ (Removed => News2(p))
    BY <1>1, NewsStays
  <2>2. \A f : ~Removed => Phantoms2(f) \subseteq Phantoms(f)
    BY <1>1 DEF Phantoms, Writes
  <2>3. ASSUME NEW s \in Sweeps, phase[s] = "walk" PROVE \A f : Phantoms2(f) \subseteq Phantoms(f)
    BY <1>1, <2>3 DEF Phantoms, Writes
  <2> HIDE DEF Removed, Phantoms2, News2
  <2>4. Phantoms2(mirror) # {} => News2(checkpoint)
    BY <1>0, <2>1, <2>2 DEF PhantomInv
  <2>5. ASSUME NEW s \in Sweeps
        PROVE  /\ phase[s] = "walk" =>
                     /\ Phantoms2(walk[s].carried) = {}
                     /\ ~walk[s].full /\ Phantoms2(mirror) # {} =>
                           CarriesMedia(walk[s].carried) \/ News2(walk[s].cursor)
               /\ phase[s] = "apply" /\ (\/ Phantoms2(walk[s].carried) # {}
                                         \/ ~walk[s].full /\ Phantoms2(mirror) # {}) =>
                     News2(walk[s].cursor) /\ News2(checkpoint)
               /\ phase[s] = "applied" /\ Phantoms2(mirror) # {} => News2(walk[s].cursor)
    <3>1. walk[s].cursor \in Position /\ walk[s].cursor.at <= clock /\ PhantomsTold(phase[s], walk[s])
      BY <1>0 DEF Walk, WalkInv, PhantomInv
    <3>2. phase[s] = "walk" =>
             /\ Phantoms2(walk[s].carried) = {}
             /\ ~walk[s].full /\ Phantoms2(mirror) # {} =>
                   CarriesMedia(walk[s].carried) \/ News2(walk[s].cursor)
      BY <2>1, <2>3, <3>1 DEF PhantomsTold
    <3>3. phase[s] = "apply" /\ (\/ Phantoms2(walk[s].carried) # {}
                                 \/ ~walk[s].full /\ Phantoms2(mirror) # {}) =>
             News2(walk[s].cursor) /\ News2(checkpoint)
      BY <1>0, <2>1, <2>2, <3>1 DEF PhantomsTold
    <3>4. phase[s] = "applied" /\ Phantoms2(mirror) # {} => News2(walk[s].cursor)
      BY <2>1, <2>2, <3>1 DEF PhantomsTold
    <3> QED
      BY <3>2, <3>3, <3>4
  <2>6. UNCHANGED <<mirror, checkpoint, phase, walk>>
    BY <1>1 DEF Writes
  <2> QED
    BY <2>4, <2>5, <2>6 DEF PhantomInv, PhantomsTold, CarriesMedia, Phantoms, NewsAfter, Phantoms2, News2
<1>r. ASSUME NEW ph, NEW w, ph \in {"idle", "granted", "ungranted"} PROVE PhantomsTold(ph, w)
  BY <1>r DEF PhantomsTold
<1>2. CASE Rests
  <2>1. ASSUME NEW r \in Sweeps PROVE PhantomsTold(phase'[r], walk'[r])
    <3>1. CASE phase'[r] = phase[r] /\ walk'[r] = walk[r]
      BY <3>1 DEF PhantomInv
    <3>2. CASE phase'[r] \in {"idle", "granted", "ungranted"}
      BY <3>2, <1>r
    <3> QED
      BY <1>2, <3>1, <3>2 DEF Rests
  <2> QED
    BY <1>2, <2>1, PhantomRests DEF Rests
<1>3. ASSUME NEW s \in Sweeps PROVE \A r \in Sweeps : r = s
  BY DEF OneSweep
<1>n. ASSUME NEW f, \A e \in Entities : f[e] = Absent PROVE Phantoms(f) = {}
  BY <1>m, <1>n DEF Phantoms
<1>4. ASSUME NEW s \in Sweeps, PullLibrary(s) PROVE PhantomInv'
  <2>1. Phantoms(walk'[s].carried) = {}
    BY <1>4, <1>n, PullBegins
  <2>2. PhantomsTold(phase'[s], walk'[s])
    BY <1>4, <2>1, PullBegins DEF PhantomInv, PhantomsTold
  <2> QED
    BY <1>3, <1>4, <2>2, PullBegins, PhantomRests
<1>5. ASSUME NEW s \in Sweeps, phase'[s] = "walk", walk'[s] = Begin(TRUE, Start),
             UNCHANGED <<rows, torn, mirror, checkpoint>>
      PROVE  PhantomInv'
  <2>1. Phantoms(walk'[s].carried) = {} /\ walk'[s].full
    BY <1>5, <1>n, FreshWalks
  <2>2. PhantomsTold(phase'[s], walk'[s])
    BY <1>5, <2>1 DEF PhantomsTold
  <2> QED
    BY <1>3, <1>5, <2>2, PhantomRests
<1>6. ASSUME NEW s \in Sweeps, Resync(s) PROVE PhantomInv'
  <2>1. phase'[s] = "walk" /\ walk'[s] = Begin(TRUE, Start) /\ UNCHANGED <<rows, torn, mirror, checkpoint>>
    BY <1>0, <1>6 DEF Resync, sharer
  <2> QED
    BY <1>5, <2>1
<1>7. ASSUME NEW s \in Sweeps, QuerySource(s) PROVE PhantomInv'
  <2>1. /\ phase'[s] = phase[s] /\ UNCHANGED <<rows, torn, mirror, checkpoint>>
        /\ walk'[s].full = walk[s].full /\ walk'[s].cursor = walk[s].cursor
        /\ walk'[s].carried = walk[s].carried
    BY <1>0, <1>7 DEF QuerySource, Walk, sharer
  <2>2. PhantomsTold(phase'[s], walk'[s])
    BY <2>1 DEF PhantomInv, PhantomsTold
  <2> QED
    BY <1>3, <2>1, <2>2, PhantomRests
<1>8. ASSUME NEW s \in Sweeps, ReadPage(s) PROVE PhantomInv'
  <2>0. /\ phase[s] = "walk" /\ walk[s].asked = NTitles /\ UNCHANGED <<rows, torn, mirror, checkpoint>>
        /\ PhantomsTold("walk", walk[s])
    BY <1>8, ReadPageCases DEF PhantomInv, sharer
  <2>f. \* The Media of a page are the rows as they are.
        \A m \in Media : /\ rows[m] # Absent /\ Before(walk[s].cursor, At(rows, m)) => Found(s)[m] = rows[m]
                         /\ Found(s)[m] = rows[m] \/ Found(s)[m] = Absent
    <3>1. \A m \in Media : walk[s].found[m] = Absent
      BY <1>0, <1>m, <2>0, QueriesOfAPage DEF WalkInv
    <3> QED
      BY <1>m, <2>0, <3>1, AnsweredEffect, QueriesOfAPage
  <2>c. \A e \in Entities :
           /\ Found(s)[e] # Absent /\ ~Before(Cursor(s), At(Found(s), e)) => Carried(s)[e] = Found(s)[e]
           /\ Found(s)[e] = Absent \/ Before(Cursor(s), At(Found(s), e)) => Carried(s)[e] = walk[s].carried[e]
           /\ Page(Found(s)) = Held(Found(s)) /\ Found(s)[e] # Absent => Carried(s)[e] = Found(s)[e]
    BY <2>0, OnwardsEffect
  <2>p. Phantoms(Carried(s)) = {}
    BY <1>m, <2>0, <2>f, <2>c DEF PhantomsTold, Phantoms
  <2>m. CarriesMedia(walk[s].carried) => CarriesMedia(Carried(s))
    BY <1>m, <2>c DEF CarriesMedia
  <2>n. ASSUME ~walk[s].full, Phantoms(mirror) # {}
        PROVE  /\ CarriesMedia(Carried(s)) \/ NewsAfter(Cursor(s))
               /\ Page(Found(s)) = Held(Found(s)) => CarriesMedia(Carried(s))
    <3>1. CASE CarriesMedia(walk[s].carried)
      BY <2>m, <3>1
    <3>2. ASSUME NEW n \in Media, rows[n] # Absent, Before(walk[s].cursor, At(rows, n))
          PROVE  /\ CarriesMedia(Carried(s)) \/ NewsAfter(Cursor(s))
                 /\ Page(Found(s)) = Held(Found(s)) => CarriesMedia(Carried(s))
      <4>1. Found(s)[n] = rows[n] /\ n \in Entities /\ At(Found(s), n) = At(rows, n)
        BY <1>m, <2>f, <3>2 DEF At
      <4>2. Carried(s)[n] # Absent => CarriesMedia(Carried(s))
        BY DEF CarriesMedia
      <4>3. Before(Cursor(s), At(rows, n)) => NewsAfter(Cursor(s))
        BY <3>2 DEF NewsAfter
      <4> QED
        BY <2>c, <3>2, <4>1, <4>2, <4>3
    <3> QED
      BY <2>0, <2>n, <3>1, <3>2 DEF PhantomsTold, NewsAfter
  <2>1. CASE GoIdle(s)
    <3>1. phase'[s] = "idle"
      BY <1>0, <2>1 DEF GoIdle
    <3> QED
      BY <1>r, <1>3, <2>0, <3>1, PhantomRests
  <2>2. CASE phase' = [phase EXCEPT ![s] = "walk"] /\ walk' = [walk EXCEPT ![s] = Begin(TRUE, Start)]
    BY <1>0, <1>5, <2>0, <2>2
  <2>o. /\ Onwards(s).full = walk[s].full /\ Onwards(s).cursor = Cursor(s)
        /\ Onwards(s).carried = Carried(s)
    BY <2>0, OnwardsEffect
  <2>3. CASE phase' = [phase EXCEPT ![s] = "walk"] /\ walk' = [walk EXCEPT ![s] = Onwards(s)]
    <3>1. phase'[s] = "walk" /\ walk'[s] = Onwards(s)
      BY <1>0, <2>3
    <3>2. PhantomsTold("walk", Onwards(s))
      BY <2>p, <2>n, <2>o DEF PhantomsTold
    <3> QED
      BY <1>3, <2>0, <3>1, <3>2, PhantomRests
  <2>4. CASE /\ Page(Found(s)) = Held(Found(s)) /\ (walk[s].full \/ ~CarriesMedia(Carried(s)))
             /\ phase' = [phase EXCEPT ![s] = "apply"] /\ walk' = [walk EXCEPT ![s] = Onwards(s)]
    <3>1. phase'[s] = "apply" /\ walk'[s] = Onwards(s)
      BY <1>0, <2>4
    <3>2. PhantomsTold("apply", Onwards(s))
      BY <2>p, <2>n, <2>o, <2>4 DEF PhantomsTold
    <3> QED
      BY <1>3, <2>0, <3>1, <3>2, PhantomRests
  <2> QED
    BY <1>8, <2>1, <2>2, <2>3, <2>4, ReadPageCases
<1>9. ASSUME NEW s \in Sweeps, ApplyMirror(s) PROVE PhantomInv'
  <2>1. PhantomsTold("apply", walk[s]) /\ UNCHANGED <<rows, torn, checkpoint>>
    BY <1>9 DEF PhantomInv, ApplyMirror, CatchUp
  <2>2. \A m \in Media : mirror'[m] = IF walk[s].carried[m] # Absent THEN walk[s].carried[m]
                                      ELSE IF walk[s].full THEN Absent ELSE mirror[m]
    BY <1>9, <1>m DEF ApplyMirror
  <2>3. Phantoms(mirror)' # {} => NewsAfter(walk[s].cursor) /\ NewsAfter(checkpoint)
    BY <2>1, <2>2 DEF PhantomsTold, Phantoms
  <2>4. CASE GoIdle(s)
    <3>1. phase'[s] = "idle"
      BY <1>0, <2>4 DEF GoIdle
    <3> QED
      BY <1>3, <2>1, <2>3, <3>1 DEF PhantomInv, PhantomsTold, NewsAfter
  <2>5. CASE phase' = [phase EXCEPT ![s] = "applied"] /\ UNCHANGED walk
    <3>1. phase'[s] = "applied" /\ walk'[s] = walk[s]
      BY <1>0, <2>5
    <3> QED
      BY <1>3, <2>1, <2>3, <3>1 DEF PhantomInv, PhantomsTold, NewsAfter
  <2> QED
    BY <1>9, <2>4, <2>5 DEF ApplyMirror, Applied
<1>10. ASSUME NEW s \in Sweeps, SetLibraryCheckpoint(s) PROVE PhantomInv'
  <2>1. /\ phase'[s] = "idle" /\ checkpoint' = walk[s].cursor /\ UNCHANGED <<rows, torn, mirror>>
        /\ PhantomsTold("applied", walk[s])
    BY <1>0, <1>10 DEF SetLibraryCheckpoint, GoIdle, sharer, PhantomInv
  <2> QED
    BY <1>3, <2>1 DEF PhantomInv, PhantomsTold, Phantoms, NewsAfter
<1>11. ASSUME NEW s \in Sweeps, TombstoneMirror(s) PROVE PhantomInv'
  <2>1. phase'[s] = "idle" /\ checkpoint' = Start /\ UNCHANGED <<rows, torn>>
        /\ \A m \in Media : mirror'[m] = mirror[m]
    BY <1>0, <1>m, <1>11 DEF TombstoneMirror, GoIdle, sharer
  <2>2. NewsAfter(checkpoint) => NewsAfter(Start)
    BY <1>m, RowsAfterStart DEF NewsAfter
  <2> QED
    BY <1>3, <2>1, <2>2 DEF PhantomInv, PhantomsTold, Phantoms, NewsAfter
<1> QED
  BY <1>1, <1>2, <1>4, <1>6, <1>7, <1>8, <1>9, <1>10, <1>11, NextCases

-----------------------------------------------------------------------------
(* Nothing at or before the checkpoint is missing.                         *)

LEMMA MissesRests ==
    ASSUME MissesInv, UNCHANGED <<rows, late, mirror, checkpoint>>,
           \A r \in Sweeps : WalkWhole(phase'[r], walk'[r])
    PROVE  MissesInv'
  BY DEF MissesInv, MissesNothing, WalkWhole, FoundWhole, By

\* What a write leaves at or before a position was there before it.
LEMMA WritesLeaveOldRows ==
    ASSUME FeedInv, Writes, NEW p \in Position, p.at <= clock, NEW e \in Entities, By(p, e)'
    PROVE  rows'[e] = rows[e] /\ By(p, e)
<1>1. rows'[e] = rows[e]
  BY WritesComeAfter DEF By
<1> QED
  BY <1>1 DEF By, At

LEMMA NothingBeforeStart == ASSUME FeedInv, NEW e \in Entities PROVE ~By(Start, e)
  BY RowsAfterStart DEF By

LEMMA WholeFromStart ==
    ASSUME FeedInv, NEW w, w.asked = 0, w.full, w.cursor = Start
    PROVE  WalkWhole("walk", w)
  BY QueriesOfAPage, NothingBeforeStart DEF WalkWhole, FoundWhole

\* But for what is late, a page's queries find all that is after the cursor.
LEMMA WholePage ==
    ASSUME FeedInv, NEW s \in Sweeps, walk[s].asked = NTitles, WalkWhole("walk", walk[s]),
           NEW e \in Entities, e \notin late
    PROVE  Found(s)[e] = IF rows[e] # Absent /\ Before(walk[s].cursor, At(rows, e)) THEN rows[e] ELSE Absent
<1>1. Asked(NTitles) = Titles /\ Source(NTitles + 1) = Media
  BY QueriesOfAPage
<1>2. CASE e \in Titles
  <2>1. e \notin Source(walk[s].asked + 1) /\ e \in Asked(walk[s].asked)
    BY <1>1, <1>2, MirrorSets
  <2>2. Found(s)[e] = walk[s].found[e]
    BY <2>1, AnsweredEffect
  <2> QED
    BY <2>1, <2>2 DEF WalkWhole, FoundWhole
<1>3. CASE e \in Media
  <2>1. e \in Source(walk[s].asked + 1) /\ e \notin Asked(walk[s].asked)
    BY <1>1, <1>3, MirrorSets
  <2>2. walk[s].found[e] = Absent
    BY <2>1 DEF FeedInv, WalkInv
  <2> QED
    BY <2>1, <2>2, AnsweredEffect
<1> QED
  BY <1>2, <1>3, MirrorSets

LEMMA MissesStep ==
    OneSweep /\ FeedInv /\ FeedInv' /\ MissesInv /\ [Next]_vars => MissesInv'
<1> SUFFICES ASSUME OneSweep, FeedInv, FeedInv', MissesInv, [Next]_vars
             PROVE  MissesInv'
  OBVIOUS
<1>0. /\ phase \in [Sweeps -> {"idle", "granted", "ungranted", "walk", "apply", "applied"}]
      /\ walk \in [Sweeps -> Walk] /\ \A s \in Sweeps : WalkInv(walk[s])
      /\ clock \in Nat /\ checkpoint \in Position /\ checkpoint.at <= clock
      /\ rows \in Rows /\ Stamps(rows)
  BY MirrorConstants DEF FeedInv, TypeOK
<1>1. CASE Writes
  <2>1. UNCHANGED <<mirror, checkpoint, phase, walk>>
    BY <1>1 DEF Writes
  <2>2. \A e \in Entities : By(checkpoint, e)' => rows'[e] = rows[e] /\ By(checkpoint, e)
    BY <1>0, <1>1, <2>1, WritesLeaveOldRows DEF By
  <2>3. \A e \in Entities : rows'[e] = rows[e] /\ e \notin late' => e \notin late
    BY <1>1 DEF Writes
  <2>4. MissesNothing'
    BY <2>1, <2>2, <2>3 DEF MissesInv, MissesNothing, By
  <2>5. ASSUME NEW s \in Sweeps PROVE WalkWhole(phase[s], walk[s])'
    <3>0. /\ walk[s].cursor \in Position /\ walk[s].cursor.at <= clock
          /\ \A e \in Asked(walk[s].asked) : e \in Entities
      BY <1>0, MirrorSets DEF Walk, WalkInv, Asked
    <3>1. \A e \in Entities : By(walk[s].cursor, e)' => rows'[e] = rows[e] /\ By(walk[s].cursor, e)
      BY <1>1, <2>1, <3>0, WritesLeaveOldRows DEF By
    <3>2. \A e \in Entities : rows'[e] = rows[e] /\ By(checkpoint, e) => By(checkpoint, e)'
      BY <2>1 DEF By, At
    <3>3. WalkWhole(phase[s], walk[s])
      BY DEF MissesInv
    <3>4. ASSUME phase[s] = "walk" PROVE FoundWhole(walk[s])'
      <4>1. FoundWhole(walk[s])
        BY <3>3, <3>4 DEF WalkWhole
      <4>2. \A e \in Asked(walk[s].asked) : e \notin late' =>
               rows'[e] = rows[e] /\ e \notin late /\ At(rows', e) = At(rows, e)
        BY <1>1, <2>3, <3>0 DEF Writes, At
      <4> QED
        BY <2>1, <4>1, <4>2 DEF FoundWhole, Asked
    <3>5. \A e \in Entities : By(walk[s].cursor, e)' /\ e \notin late' =>
             rows'[e] = rows[e] /\ By(walk[s].cursor, e) /\ e \notin late
      BY <2>3, <3>1
    <3>6. \A e \in Entities : By(checkpoint, e)' /\ e \notin late' =>
             rows'[e] = rows[e] /\ By(checkpoint, e) /\ e \notin late
      BY <2>2, <2>3
    <3> QED
      BY <2>1, <3>2, <3>3, <3>4, <3>5, <3>6 DEF WalkWhole
  <2> QED
    BY <2>4, <2>5 DEF MissesInv
<1>2. CASE Rests
  <2>1. ASSUME NEW r \in Sweeps PROVE WalkWhole(phase'[r], walk'[r])
    <3>0. WalkWhole(phase[r], walk[r])
      BY DEF MissesInv
    <3>1. CASE phase'[r] = phase[r] /\ walk'[r] = walk[r]
      BY <3>0, <3>1
    <3>2. CASE phase'[r] \in {"idle", "granted", "ungranted"} /\ walk'[r] = walk[r]
      BY <3>0, <3>2 DEF WalkWhole
    <3>3. CASE phase'[r] \in {"idle", "granted", "ungranted"} /\ walk'[r] = Begin(FALSE, Start)
      BY <3>3 DEF WalkWhole
    <3> QED
      BY <1>2, <3>1, <3>2, <3>3 DEF Rests
  <2> QED
    BY <1>2, <2>1, MissesRests DEF Rests
<1>3. ASSUME NEW s \in Sweeps PROVE \A r \in Sweeps : r = s
  BY DEF OneSweep
<1>4. ASSUME NEW s \in Sweeps, PullLibrary(s) PROVE MissesInv'
  <2>1. CASE checkpoint = Start
    <3>1. WalkWhole("walk", walk'[s])
      BY <1>4, <2>1, PullBegins, WholeFromStart
    <3> QED
      BY <1>3, <1>4, <3>1, PullBegins, MissesRests
  <2>2. CASE checkpoint # Start
    <3>1. /\ ~walk'[s].full /\ walk'[s].cursor = checkpoint /\ walk'[s].asked = 0
          /\ \A e \in Entities : walk'[s].carried[e] = Absent
      BY <1>4, <2>2, PullBegins
    <3>2. WalkWhole("walk", walk'[s])
      BY <1>0, <3>1, BeforeIsAnOrder, QueriesOfAPage DEF WalkWhole, FoundWhole
    <3> QED
      BY <1>3, <1>4, <3>2, PullBegins, MissesRests
  <2> QED
    BY <2>1, <2>2
<1>5. ASSUME NEW s \in Sweeps, phase'[s] = "walk", walk'[s] = Begin(TRUE, Start),
             UNCHANGED <<rows, late, mirror, checkpoint>>
      PROVE  MissesInv'
  <2>1. WalkWhole("walk", walk'[s])
    BY <1>5, FreshWalks, WholeFromStart
  <2> QED
    BY <1>3, <1>5, <2>1, MissesRests
<1>6. ASSUME NEW s \in Sweeps, Resync(s) PROVE MissesInv'
  <2>1. phase'[s] = "walk" /\ walk'[s] = Begin(TRUE, Start) /\ UNCHANGED <<rows, late, mirror, checkpoint>>
    BY <1>0, <1>6 DEF Resync, sharer
  <2> QED
    BY <1>5, <2>1
<1>7. ASSUME NEW s \in Sweeps, QuerySource(s) PROVE MissesInv'
  <2>1. /\ walk[s] \in Walk /\ walk[s].asked \in 0..NTitles /\ walk[s].asked < NTitles
        /\ phase'[s] = "walk" /\ phase[s] = "walk" /\ UNCHANGED <<rows, late, mirror, checkpoint>>
        /\ walk'[s] = [walk[s] EXCEPT !.asked = @ + 1, !.found = Found(s)]
    BY <1>0, <1>7 DEF QuerySource, Walk, Found, sharer
  <2>2. /\ walk'[s].full = walk[s].full /\ walk'[s].cursor = walk[s].cursor
        /\ walk'[s].carried = walk[s].carried /\ walk'[s].asked = walk[s].asked + 1
        /\ walk'[s].found = Found(s)
    BY <2>1 DEF Walk
  <2>3. /\ Asked(walk[s].asked + 1) = Asked(walk[s].asked) \cup Source(walk[s].asked + 1)
        /\ \A e \in Asked(walk[s].asked + 1) : e \in Entities
    BY <2>1, QueriesOfAPage, MirrorSets
  <2>4. WalkWhole("walk", walk[s])
    BY <2>1 DEF MissesInv
  <2>5. ASSUME NEW e \in Asked(walk[s].asked + 1), e \notin late
        PROVE  Found(s)[e] = IF rows[e] # Absent /\ Before(walk[s].cursor, At(rows, e)) THEN rows[e] ELSE Absent
    <3>1. CASE e \in Asked(walk[s].asked)
      BY <2>3, <2>4, <2>5, <3>1, AnsweredEffect DEF WalkWhole, FoundWhole
    <3>2. CASE e \in Source(walk[s].asked + 1) /\ e \notin Asked(walk[s].asked)
      <4>1. walk[s].found[e] = Absent
        BY <1>0, <2>3, <3>2 DEF WalkInv
      <4> QED
        BY <2>3, <3>2, <4>1, AnsweredEffect
    <3> QED
      BY <2>3, <3>1, <3>2
  <2>6. WalkWhole("walk", walk'[s])
    BY <2>2, <2>4, <2>5 DEF WalkWhole, FoundWhole
  <2> QED
    BY <1>3, <2>1, <2>6, MissesRests
<1>8. ASSUME NEW s \in Sweeps, ReadPage(s) PROVE MissesInv'
  <2>0. /\ phase[s] = "walk" /\ walk[s].asked = NTitles /\ UNCHANGED <<rows, late, mirror, checkpoint>>
        /\ WalkWhole("walk", walk[s])
    BY <1>8, ReadPageCases DEF MissesInv, sharer
  <2>1. CASE GoIdle(s)
    <3>1. phase'[s] = "idle" /\ walk'[s] = Begin(FALSE, Start)
      BY <1>0, <2>1 DEF GoIdle
    <3>2. WalkWhole(phase'[s], walk'[s])
      BY <3>1 DEF WalkWhole
    <3> QED
      BY <1>3, <2>0, <3>2, MissesRests
  <2>2. CASE phase' = [phase EXCEPT ![s] = "walk"] /\ walk' = [walk EXCEPT ![s] = Begin(TRUE, Start)]
    BY <1>0, <1>5, <2>0, <2>2
  <2>3. ASSUME NEW ph \in {"walk", "apply"}, ph = "apply" => Page(Found(s)) = Held(Found(s)),
               phase' = [phase EXCEPT ![s] = ph], walk' = [walk EXCEPT ![s] = Onwards(s)]
        PROVE  MissesInv'
    <3>1. phase'[s] = ph /\ walk'[s] = Onwards(s)
      BY <1>0, <2>3
    <3>2. /\ Onwards(s).full = walk[s].full /\ Onwards(s).cursor = Cursor(s)
          /\ Onwards(s).carried = Carried(s) /\ Onwards(s).asked = 0
          /\ Cursor(s) \in Position /\ Carried(s) \in Rows
          /\ Cursor(s) = walk[s].cursor \/ Before(walk[s].cursor, Cursor(s))
      BY <2>0, OnwardsEffect
    <3>3. \A e \in Entities :
             /\ Found(s)[e] # Absent /\ ~Before(Cursor(s), At(Found(s), e)) => Carried(s)[e] = Found(s)[e]
             /\ Found(s)[e] = Absent \/ Before(Cursor(s), At(Found(s), e)) => Carried(s)[e] = walk[s].carried[e]
             /\ Page(Found(s)) = Held(Found(s)) /\ Found(s)[e] # Absent => Carried(s)[e] = Found(s)[e]
      BY <2>0, OnwardsEffect
    <3>4. walk[s].cursor \in Position /\ Found(s) \in Rows
      BY <1>0, AnsweredEffect DEF Walk
    <3>5. \A e \in Entities : e \notin late =>
             Found(s)[e] = IF rows[e] # Absent /\ Before(walk[s].cursor, At(rows, e)) THEN rows[e] ELSE Absent
      BY <2>0, WholePage
    <3>6. ASSUME ~walk[s].full PROVE ~Before(Cursor(s), checkpoint)
      <4>1. ~Before(walk[s].cursor, checkpoint)
        BY <2>0, <3>6 DEF WalkWhole
      <4> QED
        BY <1>0, <3>2, <3>4, <4>1, BeforeIsAnOrder
    <3>7. ASSUME ~walk[s].full, NEW e \in Entities, Carried(s)[e] # Absent
          PROVE  Before(checkpoint, At(Carried(s), e))
      <4>1. CASE Carried(s)[e] = walk[s].carried[e]
        BY <2>0, <3>7, <4>1 DEF WalkWhole, At
      <4>2. CASE Carried(s)[e] = Found(s)[e] /\ Found(s)[e] # Absent
        <5>1. Before(walk[s].cursor, At(Found(s), e)) /\ At(Found(s), e) \in Position
          BY <3>4, <4>2, AnsweredEffect, Positions
        <5>2. ~Before(walk[s].cursor, checkpoint)
          BY <2>0, <3>7 DEF WalkWhole
        <5>3. Before(checkpoint, At(Found(s), e))
          BY <1>0, <3>4, <5>1, <5>2, BeforeIsAnOrder
        <5> QED
          BY <4>2, <5>3 DEF At
      <4> QED
        BY <3>3, <3>7, <4>1, <4>2
    <3>8. ASSUME NEW e \in Entities, By(Cursor(s), e), e \notin late, walk[s].full \/ ~By(checkpoint, e)
          PROVE  Carried(s)[e] = rows[e]
      <4>1. CASE Before(walk[s].cursor, At(rows, e))
        <5>1. Found(s)[e] = rows[e] /\ At(Found(s), e) = At(rows, e) /\ rows[e] # Absent
          BY <3>5, <3>8, <4>1 DEF By, At
        <5> QED
          BY <3>3, <3>8, <5>1 DEF By
      <4>2. CASE ~Before(walk[s].cursor, At(rows, e))
        <5>1. walk[s].carried[e] = rows[e]
          BY <2>0, <3>8, <4>2 DEF WalkWhole, By
        <5> QED
          BY <3>3, <3>5, <3>8, <4>2, <5>1
      <4> QED
        BY <4>1, <4>2
    <3>9. ASSUME ph = "apply", walk[s].full, NEW e \in Entities, rows[e] # Absent, e \notin late
          PROVE  Carried(s)[e] = rows[e]
      <4>1. CASE Before(walk[s].cursor, At(rows, e))
        BY <2>3, <3>3, <3>5, <3>9, <4>1
      <4>2. CASE ~Before(walk[s].cursor, At(rows, e))
        <5>1. walk[s].carried[e] = rows[e]
          BY <2>0, <3>9, <4>2 DEF WalkWhole, By
        <5> QED
          BY <3>3, <3>5, <3>9, <4>2, <5>1
      <4> QED
        BY <4>1, <4>2
    <3>10. WalkWhole(ph, Onwards(s))
      <4>1. \A e \in Entities : By(checkpoint, e) => rows[e] # Absent
        BY DEF By
      <4>2. ph # "applied" /\ Asked(0) = {}
        BY <2>3, QueriesOfAPage
      <4> QED
        BY <3>2, <3>6, <3>7, <3>8, <3>9, <4>1, <4>2 DEF WalkWhole, FoundWhole
    <3> QED
      BY <1>3, <2>0, <3>1, <3>10, MissesRests
  <2> QED
    BY <1>8, <2>1, <2>2, <2>3, ReadPageCases
<1>9. ASSUME NEW s \in Sweeps, ApplyMirror(s) PROVE MissesInv'
  <2>1. WalkWhole("apply", walk[s]) /\ UNCHANGED <<rows, checkpoint>>
    BY <1>9 DEF MissesInv, ApplyMirror, CatchUp
  <2>2. \A e \in Entities : mirror'[e] = IF walk[s].carried[e] # Absent THEN walk[s].carried[e]
                                         ELSE IF walk[s].full THEN Absent ELSE mirror[e]
    BY <1>9 DEF ApplyMirror
  <2>l. \A e : e \notin late' => e \notin late \/ mirror'[e] = rows[e]
    BY <1>9 DEF ApplyMirror, CatchUp
  <2>3. ASSUME NEW e \in Entities, By(checkpoint, e), e \notin late PROVE mirror'[e] = rows[e]
    <3>1. CASE walk[s].full
      BY <2>1, <2>2, <2>3, <3>1 DEF WalkWhole, By
    <3>2. CASE ~walk[s].full
      <4>1. ASSUME walk[s].carried[e] # Absent PROVE FALSE
        <5>1. Before(checkpoint, At(walk[s].carried, e)) /\ ~Before(checkpoint, At(rows, e)) /\ rows[e] # Absent
          BY <2>1, <2>3, <3>2, <4>1 DEF WalkWhole, By
        <5>2. rows[e] = walk[s].carried[e] \/ walk[s].carried[e].at < rows[e].at
          BY <1>0, <4>1, <5>1 DEF WalkInv, ReadOf
        <5>3. checkpoint.at \in Nat /\ rows[e].at \in Nat /\ walk[s].carried[e].at \in Nat
          BY <1>0, <4>1, <5>1 DEF Position, Stamps, WalkInv
        <5> QED
          BY <5>1, <5>2, <5>3 DEF Before, At
      <4> QED
        BY <2>2, <2>3, <3>2, <4>1 DEF MissesInv, MissesNothing, By
    <3> QED
      BY <3>1, <3>2
  <2>4. MissesNothing'
    BY <2>1, <2>3, <2>l DEF MissesNothing, By
  <2>5. ASSUME NEW e \in Entities, By(walk[s].cursor, e), e \notin late PROVE mirror'[e] = rows[e]
    BY <2>1, <2>2, <2>3, <2>5 DEF WalkWhole, By
  <2>6. CASE GoIdle(s)
    <3>1. phase'[s] = "idle" /\ walk'[s] = Begin(FALSE, Start)
      BY <1>0, <2>6 DEF GoIdle
    <3> QED
      BY <1>3, <2>4, <3>1 DEF MissesInv, WalkWhole
  <2>7. CASE phase' = [phase EXCEPT ![s] = "applied"] /\ UNCHANGED walk
    <3>1. phase'[s] = "applied" /\ walk'[s] = walk[s]
      BY <1>0, <2>7
    <3>2. WalkWhole(phase[s], walk[s])'
      BY <2>1, <2>5, <2>l, <3>1 DEF WalkWhole, By
    <3> QED
      BY <1>3, <2>4, <3>2 DEF MissesInv
  <2> QED
    BY <1>9, <2>6, <2>7 DEF ApplyMirror, Applied
<1>10. ASSUME NEW s \in Sweeps, SetLibraryCheckpoint(s) PROVE MissesInv'
  <2>1. /\ phase'[s] = "idle" /\ walk'[s] = Begin(FALSE, Start) /\ checkpoint' = walk[s].cursor
        /\ UNCHANGED <<rows, late, mirror>> /\ WalkWhole("applied", walk[s])
    BY <1>0, <1>10 DEF SetLibraryCheckpoint, GoIdle, sharer, MissesInv
  <2>2. MissesNothing'
    BY <2>1 DEF MissesNothing, WalkWhole, By
  <2> QED
    BY <1>3, <2>1, <2>2 DEF MissesInv, WalkWhole
<1>11. ASSUME NEW s \in Sweeps, TombstoneMirror(s) PROVE MissesInv'
  <2>1. /\ phase'[s] = "idle" /\ walk'[s] = Begin(FALSE, Start) /\ checkpoint' = Start /\ rows' = rows
    BY <1>0, <1>11 DEF TombstoneMirror, GoIdle, sharer
  <2>2. MissesNothing'
    BY <2>1, NothingBeforeStart DEF MissesNothing, By
  <2> QED
    BY <1>3, <2>1, <2>2 DEF MissesInv, WalkWhole
<1> QED
  BY <1>1, <1>2, <1>4, <1>6, <1>7, <1>8, <1>9, <1>10, <1>11, NextCases

-----------------------------------------------------------------------------
LEMMA AllIdleInit ==
    ASSUME Init
    PROVE  /\ rows = Nothing /\ mirror = Nothing /\ checkpoint = Start
           /\ \A e \in Entities : Nothing[e] = Absent
           /\ \A s \in Sweeps : /\ phase[s] = "idle" /\ walk[s].asked = 0 /\ ~walk[s].full
                                /\ \A e \in Entities : walk[s].carried[e] = Absent /\ walk[s].found[e] = Absent
<1>1. \A s \in Sweeps : phase[s] = "idle" /\ walk[s] = Begin(FALSE, Start)
  BY DEF Init
<1>2. \A e \in Entities : Nothing[e] = Absent
  BY DEF Nothing
<1> QED
  BY <1>1, <1>2, FreshWalks DEF Init

(* Whatever the sharer changes while a full pull walks its Library page by *)
(* page and query by query, the pull prunes no Title that was mirrored,    *)
(* and no other step removes one: as long as a Link's sweeps do not        *)
(* overlap, a write between any two queries included.                      *)
THEOREM TitlesAreKept ==
    ASSUME OneSweep
    PROVE  Spec => TitlesStay
<1>1. Init => TitleInv
  <2> SUFFICES ASSUME Init PROVE TitleInv
    OBVIOUS
  <2>1. \A t \in Titles : t \in Entities
    BY MirrorSets
  <2> QED
    BY <2>1, AllIdleInit DEF TitleInv, TitleKept, TitleThere
<1>2. FeedInv /\ FeedInv' /\ TitleInv /\ [Next]_vars => TitleInv'
  BY TitleStep
<1>3. FeedInv /\ FeedInv' /\ TitleInv /\ [Next]_vars =>
         [\A t \in Titles : mirror[t] # Absent => mirror'[t] # Absent]_vars
  BY TitleStep
<1> QED
  BY <1>1, <1>2, <1>3, FeedInvariant, PTL DEF Spec, TitlesStay

(* An Edition or Stream that is gone at the sharer and is still mirrored   *)
(* is always followed by news in the feed, which makes the next pull walk  *)
(* the whole Library and prune it, whichever write, failure or restart     *)
(* comes between two queries, and although the feed has no tombstone for   *)
(* it.  What was removed during a walk is excepted.                        *)
THEOREM PhantomsArePruned ==
    ASSUME OneSweep
    PROVE  Spec => []NoPhantoms
<1>1. Init => PhantomInv
  <2> SUFFICES ASSUME Init PROVE PhantomInv
    OBVIOUS
  <2>1. \A m \in Media : m \in Entities
    BY MirrorSets
  <2> QED
    BY <2>1, AllIdleInit DEF PhantomInv, PhantomsTold, Phantoms
<1>2. FeedInv /\ FeedInv' /\ PhantomInv /\ [Next]_vars => PhantomInv'
  BY PhantomStep
<1>3. PhantomInv => NoPhantoms
  <2> SUFFICES ASSUME PhantomInv, \A q \in 1..Queries : After(checkpoint, q) = {}
               PROVE  \A m \in Media : mirror[m] # Absent => rows[m] # Absent \/ m \in torn
    BY DEF NoPhantoms
  <2>1. After(checkpoint, NTitles + 1) = {} /\ Source(NTitles + 1) = Media
    BY QueriesOfAPage
  <2>2. ~NewsAfter(checkpoint)
    BY <2>1 DEF After, NewsAfter
  <2> QED
    BY <2>2 DEF PhantomInv, Phantoms
<1> QED
  BY <1>1, <1>2, <1>3, FeedInvariant, PTL DEF Spec

(* Everything the sharer has at or before the checkpoint is mirrored as it *)
(* is, whatever pages, failures, restarts, resyncs and changes of the      *)
(* grant came between, and with a write between any two queries of a page: *)
(* but for what was last written when a page under way had asked for it,   *)
(* and as long as a Link's sweeps do not overlap.                          *)
THEOREM NothingIsMissed ==
    ASSUME OneSweep
    PROVE  Spec => []MissesNothing
<1>1. Init => MissesInv
  <2> SUFFICES ASSUME Init PROVE MissesInv
    OBVIOUS
  <2> QED
    BY AllIdleInit DEF MissesInv, MissesNothing, WalkWhole, By
<1>2. FeedInv /\ FeedInv' /\ MissesInv /\ [Next]_vars => MissesInv'
  BY MissesStep
<1>3. MissesInv => MissesNothing
  BY DEF MissesInv
<1> QED
  BY <1>1, <1>2, <1>3, FeedInvariant, PTL DEF Spec
=============================================================================
