-------------------------- MODULE Recurring_proofs -------------------------
(***************************************************************************)
(* Theorems about Recurring for any transactions, payees, categories,      *)
(* detections, disabling requests and number of series.                    *)
(***************************************************************************)
EXTENDS Recurring, TLAPS

(* Functions with one or more entries written over *)

LEMMA OverwriteTyped ==
  ASSUME NEW S, NEW T, NEW f \in Partial(S, T), NEW g \in Partial(S, T)
  PROVE  /\ Overwrite(f, g) \in Partial(S, T)
         /\ DOMAIN Overwrite(f, g) = DOMAIN f \cup DOMAIN g
         /\ \A x \in DOMAIN g : Overwrite(f, g)[x] = g[x]
         /\ \A x \in DOMAIN f \ DOMAIN g : Overwrite(f, g)[x] = f[x]
<1>1. PICK D \in SUBSET S : f \in [D -> T]
  BY DEF Partial
<1>2. PICK E \in SUBSET S : g \in [E -> T]
  BY DEF Partial
<1>3. Overwrite(f, g) \in [D \cup E -> T]
  BY <1>1, <1>2 DEF Overwrite
<1>4. D \cup E \in SUBSET S
  BY <1>1, <1>2
<1>5. Overwrite(f, g) \in Partial(S, T)
  BY <1>3, <1>4 DEF Partial
<1> QED
  BY <1>1, <1>2, <1>3, <1>5 DEF Overwrite

\* g is f with v at x.
Changed(g, f, x, v) ==
  /\ DOMAIN g = DOMAIN f \cup {x} /\ g[x] = v
  /\ \A y \in DOMAIN f : y # x => g[y] = f[y]

LEMMA WithTyped ==
  ASSUME NEW S, NEW T, NEW f \in Partial(S, T), NEW x \in S, NEW v \in T
  PROVE  With(f, x, v) \in Partial(S, T) /\ Changed(With(f, x, v), f, x, v)
<1>1. PICK D \in SUBSET S : f \in [D -> T]
  BY DEF Partial
<1>2. With(f, x, v) \in [D \cup {x} -> T]
  BY <1>1 DEF With, Overwrite
<1>3. D \cup {x} \in SUBSET S
  BY <1>1
<1>4. With(f, x, v) \in Partial(S, T)
  BY <1>2, <1>3 DEF Partial
<1> QED
  BY <1>1, <1>2, <1>4 DEF With, Overwrite, Changed

LEMMA PartialTyped ==
  ASSUME NEW S, NEW T, NEW f \in Partial(S, T)
  PROVE  DOMAIN f \subseteq S /\ \A x \in DOMAIN f : f[x] \in T
BY DEF Partial

LEMMA NothingTyped ==
  ASSUME NEW S, NEW T PROVE Nothing \in Partial(S, T) /\ DOMAIN Nothing = {}
<1>1. Nothing \in [{} -> T] /\ {} \in SUBSET S
  BY DEF Nothing
<1> QED
  BY <1>1 DEF Partial, Nothing

LEMMA IdleTyped == Idle \in WorkState
<1>1. Nothing \in Partial(SeriesId, Series) /\ Nothing \in Partial(Tx, SeriesId \cup {0})
  BY NothingTyped
<1> QED
  BY <1>1 DEF Idle, WorkState

LEMMA IdsTyped == SeriesId \subseteq Nat /\ 0 \notin SeriesId
BY RecurringAssumption DEF SeriesId

------------------------------------------------------------------------------
(* What is known of work in progress.  A detection links rows only to series *)
(* it has written itself; two transactions never write the same series; a    *)
(* disabling request in its second statement has every row of its series on  *)
(* its list or freed already.                                                *)

DetectionKnown(w) ==
  /\ w.pc \in {"idle", "select", "insert", "update", "link"}
  /\ w.pc = "insert" => w.name \in Name
  /\ w.pc = "update" => w.target \in DOMAIN series \cup DOMAIN w.stored
  /\ w.pc = "link" => w.target \in DOMAIN w.stored
  /\ \A t \in DOMAIN w.links : w.links[t] \in DOMAIN w.stored
  /\ \A s \in DOMAIN w.stored \cap DOMAIN series :
       /\ w.stored[s].active = series[s].active
       /\ w.stored[s].confirmed = series[s].confirmed

DisablingKnown(w) ==
  /\ w.pc \in {"idle", "list", "free"}
  /\ w.pc = "idle" => DOMAIN w.stored = {}
  /\ w.pc # "idle" =>
       /\ DOMAIN w.stored = {w.target} /\ w.target \in DOMAIN series
       /\ ~w.stored[w.target].active
  /\ \A t \in DOMAIN w.links : w.links[t] = 0
  /\ w.pc = "free" =>
       \A t \in Tx : row[t].series = w.target => t \in w.rows \cup DOMAIN w.links

WritesApart ==
  \A p, q \in Worker : p # q => DOMAIN work[p].stored \cap DOMAIN work[q].stored = {}

WorkKnown ==
  /\ \A d \in Detector : DetectionKnown(work[d])
  /\ \A u \in Disabler : DisablingKnown(work[u])
  /\ WritesApart

IInv == TypeOK /\ WorkKnown

LEMMA WorkTyped ==
  ASSUME TypeOK, NEW p \in Worker
  PROVE  /\ work[p] \in WorkState
         /\ work[p].stored \in Partial(SeriesId, Series)
         /\ work[p].links \in Partial(Tx, SeriesId \cup {0})
         /\ series \in Partial(SeriesId, Series)
         /\ DOMAIN series \subseteq SeriesId /\ DOMAIN work[p].stored \subseteq SeriesId
         /\ \A s \in DOMAIN series : series[s] \in Series
         /\ \A s \in DOMAIN work[p].stored : work[p].stored[s] \in Series
         /\ DOMAIN work[p].links \subseteq Tx
         /\ \A t \in DOMAIN work[p].links : work[p].links[t] \in SeriesId \cup {0}
<1>1. work[p] \in WorkState /\ series \in Partial(SeriesId, Series)
  BY DEF TypeOK
<1>2. work[p].stored \in Partial(SeriesId, Series)
      /\ work[p].links \in Partial(Tx, SeriesId \cup {0})
  BY <1>1 DEF WorkState
<1> QED
  BY <1>1, <1>2, PartialTyped

LEMMA VisibleTyped ==
  ASSUME TypeOK, NEW p \in Worker
  PROVE  /\ Visible(p) \in Partial(SeriesId, Series)
         /\ DOMAIN Visible(p) = DOMAIN series \cup DOMAIN work[p].stored
         /\ DOMAIN Visible(p) \subseteq SeriesId
         /\ \A s \in DOMAIN Visible(p) : Visible(p)[s] \in Series
         /\ \A s \in DOMAIN work[p].stored : Visible(p)[s] = work[p].stored[s]
         /\ \A s \in DOMAIN series \ DOMAIN work[p].stored : Visible(p)[s] = series[s]
<1>1. work[p].stored \in Partial(SeriesId, Series) /\ series \in Partial(SeriesId, Series)
  BY WorkTyped
<1> QED
  BY <1>1, OverwriteTyped, PartialTyped DEF Visible

LEMMA IdleKnown == DetectionKnown(Idle) /\ DisablingKnown(Idle) /\ DOMAIN Idle.stored = {}
BY NothingTyped DEF Idle, DetectionKnown, DisablingKnown, Nothing

(* A step that changes the state of one transaction only. *)
LEMMA OwnStep ==
  ASSUME IInv, NEW p \in Worker, NEW w \in WorkState,
         work' = [work EXCEPT ![p] = w], UNCHANGED <<row, series>>,
         p \in Detector => DetectionKnown(w),
         p \in Disabler => DisablingKnown(w),
         \A q \in Worker \ {p} : DOMAIN w.stored \cap DOMAIN work[q].stored = {}
  PROVE  IInv'
<1>1. TypeOK'
  BY DEF IInv, TypeOK
<1>2. work'[p] = w /\ \A q \in Worker \ {p} : work'[q] = work[q]
  BY DEF IInv, TypeOK
<1>3. \A d \in Detector : DetectionKnown(work[d])'
  <2> SUFFICES ASSUME NEW d \in Detector PROVE DetectionKnown(work[d])'
    OBVIOUS
  <2>1. d \in Worker /\ DetectionKnown(work'[d])
    BY <1>2 DEF IInv, WorkKnown, Worker
  <2> QED
    BY <2>1 DEF DetectionKnown
<1>4. \A u \in Disabler : DisablingKnown(work[u])'
  <2> SUFFICES ASSUME NEW u \in Disabler PROVE DisablingKnown(work[u])'
    OBVIOUS
  <2>1. u \in Worker /\ DisablingKnown(work'[u])
    BY <1>2 DEF IInv, WorkKnown, Worker
  <2> QED
    BY <2>1 DEF DisablingKnown
<1>5. WritesApart'
  BY <1>2 DEF IInv, WorkKnown, WritesApart
<1> QED
  BY <1>1, <1>3, <1>4, <1>5 DEF IInv, WorkKnown

LEMMA RollbackStep ==
  ASSUME IInv, NEW p \in Worker, Rollback(p) PROVE IInv'
<1>1. PICK w : w = Idle
  OBVIOUS
<1>2. w \in WorkState /\ DetectionKnown(w) /\ DisablingKnown(w) /\ DOMAIN w.stored = {}
  BY <1>1, IdleKnown, IdleTyped
<1> QED
  BY <1>1, <1>2, OwnStep DEF Rollback

LEMMA DetectStep ==
  ASSUME IInv, NEW d \in Detector, Detect(d) PROVE IInv'
<1>1. PICK w : w = [work[d] EXCEPT !.pc = "select", !.todo = Candidates]
  OBVIOUS
<1>2. d \in Worker /\ work[d] \in WorkState /\ d \notin Disabler
  BY RecurringAssumption DEF IInv, TypeOK, Worker
<1>3. Candidates \in SUBSET Candidate
  BY DEF Candidates
<1>4. w \in WorkState
  BY <1>1, <1>2, <1>3 DEF WorkState
<1>5. DetectionKnown(w)
  BY <1>1, <1>2 DEF IInv, WorkKnown, DetectionKnown, WorkState
<1>6. w.stored = work[d].stored
  BY <1>1, <1>2 DEF WorkState
<1>7. work' = [work EXCEPT ![d] = w]
  BY <1>1 DEF Detect
<1>8. \A q \in Worker \ {d} : DOMAIN w.stored \cap DOMAIN work[q].stored = {}
  BY <1>2, <1>6 DEF IInv, WorkKnown, WritesApart
<1> QED
  BY <1>2, <1>4, <1>5, <1>7, <1>8, OwnStep DEF Detect

LEMMA SelectStep ==
  ASSUME IInv, NEW d \in Detector, SelectSeries(d) PROVE IInv'
<1>1. d \in Worker /\ work[d] \in WorkState /\ d \notin Disabler
  BY RecurringAssumption DEF IInv, TypeOK, Worker
<1>2. PICK k \in work[d].todo :
        \E s \in IF SeriesOf(d, k.name) = {} THEN {0} ELSE SeriesOf(d, k.name) :
          work' = [work EXCEPT ![d].pc = IF s = 0 THEN "insert" ELSE "update",
                               ![d].todo = @ \ {k}, ![d].name = k.name,
                               ![d].rows = k.rows, ![d].target = s]
  BY DEF SelectSeries
<1>3. PICK s \in IF SeriesOf(d, k.name) = {} THEN {0} ELSE SeriesOf(d, k.name) :
        work' = [work EXCEPT ![d].pc = IF s = 0 THEN "insert" ELSE "update",
                             ![d].todo = @ \ {k}, ![d].name = k.name,
                             ![d].rows = k.rows, ![d].target = s]
  BY <1>2
<1>4. PICK w : w = [work[d] EXCEPT !.pc = IF s = 0 THEN "insert" ELSE "update",
                      !.todo = @ \ {k}, !.name = k.name, !.rows = k.rows, !.target = s]
  OBVIOUS
<1>5. work' = [work EXCEPT ![d] = w]
  BY <1>3, <1>4
<1>6. k \in Candidate
  BY <1>1 DEF WorkState
<1>7. s \in SeriesId \cup {0} /\ (s # 0 => s \in DOMAIN series \cup DOMAIN work[d].stored)
  BY <1>1, <1>3, VisibleTyped DEF SeriesOf, IInv
<1>8. w \in WorkState
  BY <1>1, <1>4, <1>6, <1>7 DEF WorkState, Candidate
<1>9. w.stored = work[d].stored /\ w.links = work[d].links /\ w.target = s /\ w.name = k.name
      /\ w.pc = IF s = 0 THEN "insert" ELSE "update"
  BY <1>1, <1>4 DEF WorkState
<1>10. DetectionKnown(w)
  BY <1>1, <1>6, <1>7, <1>9 DEF IInv, WorkKnown, DetectionKnown, Candidate
<1>11. \A q \in Worker \ {d} : DOMAIN w.stored \cap DOMAIN work[q].stored = {}
  BY <1>1, <1>9 DEF IInv, WorkKnown, WritesApart
<1> QED
  BY <1>1, <1>5, <1>8, <1>10, <1>11, OwnStep DEF SelectSeries

LEMMA InsertStep ==
  ASSUME IInv, NEW d \in Detector, InsertSeries(d) PROVE IInv'
<1>1. d \in Worker /\ work[d] \in WorkState /\ d \notin Disabler
  BY RecurringAssumption DEF IInv, TypeOK, Worker
<1>2. PICK s \in Unused :
        work' = [work EXCEPT
          ![d].pc = "link", ![d].target = s,
          ![d].stored = With(@, s, [name |-> work[d].name, terms |-> "detected",
                                    confirmed |-> FALSE, active |-> TRUE])]
  BY DEF InsertSeries
<1>3. PICK v : v = [name |-> work[d].name, terms |-> "detected",
                    confirmed |-> FALSE, active |-> TRUE]
  OBVIOUS
<1>4. v \in Series
  BY <1>3 DEF InsertSeries, IInv, WorkKnown, DetectionKnown, Series
<1>5. s \in SeriesId /\ s \notin DOMAIN series
      /\ \A p \in Worker : s \notin DOMAIN work[p].stored
  BY <1>1, VisibleTyped DEF Unused, IInv
<1>6. PICK f : f = With(work[d].stored, s, v)
  OBVIOUS
<1>7. work[d].stored \in Partial(SeriesId, Series)
  BY <1>1, WorkTyped DEF IInv
<1>8. f \in Partial(SeriesId, Series) /\ Changed(f, work[d].stored, s, v)
  BY <1>4, <1>5, <1>6, <1>7, WithTyped
<1>9. PICK w : w = [work[d] EXCEPT !.pc = "link", !.target = s, !.stored = f]
  OBVIOUS
<1>10. work' = [work EXCEPT ![d] = w]
  BY <1>1, <1>2, <1>3, <1>6, <1>9 DEF WorkState
<1>11. /\ w \in WorkState
       /\ w.stored = f /\ w.links = work[d].links /\ w.target = s /\ w.pc = "link"
  BY <1>1, <1>5, <1>8, <1>9 DEF WorkState
<1>12. DetectionKnown(w)
  BY <1>5, <1>8, <1>11 DEF IInv, WorkKnown, DetectionKnown, Changed
<1>13. \A q \in Worker \ {d} : DOMAIN w.stored \cap DOMAIN work[q].stored = {}
  BY <1>1, <1>5, <1>8, <1>11 DEF IInv, WorkKnown, WritesApart, Changed
<1> QED
  BY <1>1, <1>10, <1>11, <1>12, <1>13, OwnStep DEF InsertSeries

LEMMA UpdateSeriesStep ==
  ASSUME IInv, NEW d \in Detector, UpdateSeries(d) PROVE IInv'
<1>1. d \in Worker /\ work[d] \in WorkState /\ d \notin Disabler
  BY RecurringAssumption DEF IInv, TypeOK, Worker
<1>2. PICK s : s = work[d].target
  OBVIOUS
<1>3. PICK v : v = [Visible(d)[s] EXCEPT !.terms = "detected"]
  OBVIOUS
<1>4. PICK f : f = With(work[d].stored, s, v)
  OBVIOUS
<1>5. work' = [work EXCEPT ![d].pc = "link", ![d].stored = f]
  BY <1>1, <1>2, <1>3, <1>4 DEF UpdateSeries
<1>6. s \in DOMAIN Visible(d) /\ s \in SeriesId /\ Visible(d)[s] \in Series
  BY <1>1, <1>2, VisibleTyped DEF UpdateSeries, IInv, WorkKnown, DetectionKnown
<1>7. v \in Series /\ v.active = Visible(d)[s].active /\ v.confirmed = Visible(d)[s].confirmed
  BY <1>3, <1>6 DEF Series
<1>8. work[d].stored \in Partial(SeriesId, Series)
  BY <1>1, WorkTyped DEF IInv
<1>9. f \in Partial(SeriesId, Series) /\ Changed(f, work[d].stored, s, v)
  BY <1>4, <1>6, <1>7, <1>8, WithTyped
<1>10. PICK w : w = [work[d] EXCEPT !.pc = "link", !.stored = f]
  OBVIOUS
<1>11. work' = [work EXCEPT ![d] = w]
  BY <1>5, <1>10
<1>12. /\ w \in WorkState
       /\ w.stored = f /\ w.links = work[d].links /\ w.target = s /\ w.pc = "link"
  BY <1>1, <1>2, <1>9, <1>10 DEF WorkState
<1>13. s \in DOMAIN series
         => v.active = series[s].active /\ v.confirmed = series[s].confirmed
  <2>1. CASE s \in DOMAIN work[d].stored
    <3>1. Visible(d)[s] = work[d].stored[s]
      BY <1>1, <2>1, VisibleTyped DEF IInv
    <3> QED
      BY <1>7, <2>1, <3>1 DEF IInv, WorkKnown, DetectionKnown
  <2>2. CASE s \notin DOMAIN work[d].stored
    <3>1. s \in DOMAIN series => Visible(d)[s] = series[s]
      BY <1>1, <2>2, VisibleTyped DEF IInv
    <3> QED
      BY <1>7, <3>1
  <2> QED
    BY <2>1, <2>2
<1>14. DetectionKnown(w)
  BY <1>9, <1>12, <1>13 DEF IInv, WorkKnown, DetectionKnown, Changed
<1>15. \A q \in Worker \ {d} : DOMAIN w.stored \cap DOMAIN work[q].stored = {}
  BY <1>1, <1>2, <1>9, <1>12 DEF IInv, WorkKnown, WritesApart, UpdateSeries, SeriesFree, Changed
<1> QED
  BY <1>1, <1>11, <1>12, <1>14, <1>15, OwnStep DEF UpdateSeries

LEMMA LinkStep ==
  ASSUME IInv, NEW d \in Detector, NEW t \in Tx, LinkRow(d, t) PROVE IInv'
<1>1. d \in Worker /\ work[d] \in WorkState /\ d \notin Disabler
  BY RecurringAssumption DEF IInv, TypeOK, Worker
<1>2. PICK s : s = work[d].target
  OBVIOUS
<1>3. s \in DOMAIN work[d].stored /\ s \in SeriesId \cup {0}
  BY <1>1, <1>2 DEF LinkRow, IInv, WorkKnown, DetectionKnown, WorkState
<1>4. PICK f : f = With(work[d].links, t, s)
  OBVIOUS
<1>5. work[d].links \in Partial(Tx, SeriesId \cup {0})
  BY <1>1, WorkTyped DEF IInv
<1>6. f \in Partial(Tx, SeriesId \cup {0}) /\ Changed(f, work[d].links, t, s)
  BY <1>3, <1>4, <1>5, WithTyped
<1>7. PICK w : w = [work[d] EXCEPT !.pc = IF work[d].rows = {t} THEN "select" ELSE "link",
                                   !.rows = @ \ {t}, !.links = f]
  OBVIOUS
<1>8. work' = [work EXCEPT ![d] = w]
  BY <1>1, <1>2, <1>4, <1>7 DEF LinkRow
<1>9. /\ w \in WorkState
      /\ w.stored = work[d].stored /\ w.links = f /\ w.target = s /\ w.pc \in {"select", "link"}
  BY <1>1, <1>2, <1>6, <1>7 DEF WorkState
<1>10. DetectionKnown(w)
  BY <1>3, <1>6, <1>9 DEF IInv, WorkKnown, DetectionKnown, Changed
<1>11. \A q \in Worker \ {d} : DOMAIN w.stored \cap DOMAIN work[q].stored = {}
  BY <1>1, <1>9 DEF IInv, WorkKnown, WritesApart
<1> QED
  BY <1>1, <1>8, <1>9, <1>10, <1>11, OwnStep DEF LinkRow

LEMMA DisableStep ==
  ASSUME IInv, NEW u \in Disabler, NEW s \in SeriesId, Disable(u, s) PROVE IInv'
<1>1. u \in Worker /\ work[u] \in WorkState /\ u \notin Detector
  BY RecurringAssumption DEF IInv, TypeOK, Worker
<1>2. PICK v : v = [series[s] EXCEPT !.active = FALSE, !.confirmed = FALSE]
  OBVIOUS
<1>3. series[s] \in Series
  BY <1>1, WorkTyped DEF Disable, IInv
<1>4. v \in Series /\ ~v.active
  BY <1>2, <1>3 DEF Series
<1>5. PICK f : f = With(work[u].stored, s, v)
  OBVIOUS
<1>6. work[u].stored \in Partial(SeriesId, Series) /\ DOMAIN work[u].stored = {}
  BY <1>1, WorkTyped DEF Disable, IInv, WorkKnown, DisablingKnown
<1>7. f \in Partial(SeriesId, Series) /\ Changed(f, work[u].stored, s, v)
  BY <1>4, <1>5, <1>6, WithTyped
<1>8. PICK w : w = [work[u] EXCEPT !.pc = "list", !.target = s, !.stored = f]
  OBVIOUS
<1>9. work' = [work EXCEPT ![u] = w]
  BY <1>1, <1>2, <1>5, <1>8 DEF Disable
<1>10. /\ w \in WorkState
       /\ w.stored = f /\ w.links = work[u].links /\ w.target = s /\ w.pc = "list"
  BY <1>1, <1>7, <1>8 DEF WorkState
<1>11. DisablingKnown(w)
  BY <1>4, <1>6, <1>7, <1>10 DEF Disable, IInv, WorkKnown, DisablingKnown, Changed
<1>12. \A q \in Worker \ {u} : DOMAIN w.stored \cap DOMAIN work[q].stored = {}
  BY <1>1, <1>6, <1>7, <1>10 DEF Disable, SeriesFree, Changed
<1> QED
  BY <1>1, <1>9, <1>10, <1>11, <1>12, OwnStep DEF Disable

LEMMA ListStep ==
  ASSUME IInv, NEW u \in Disabler, ListLinked(u) PROVE IInv'
<1>1. u \in Worker /\ work[u] \in WorkState /\ u \notin Detector
  BY RecurringAssumption DEF IInv, TypeOK, Worker
<1>2. PICK T \in SUBSET Tx : T = {t \in Tx : row[t].series = work[u].target}
  OBVIOUS
<1>3. PICK w : w = [work[u] EXCEPT !.pc = "free", !.rows = T]
  OBVIOUS
<1>4. work' = [work EXCEPT ![u] = w]
  BY <1>1, <1>2, <1>3 DEF ListLinked
<1>5. /\ w \in WorkState
      /\ w.stored = work[u].stored /\ w.links = work[u].links /\ w.target = work[u].target
      /\ w.rows = T /\ w.pc = "free"
  BY <1>1, <1>3 DEF WorkState
<1>6. DisablingKnown(w)
  BY <1>2, <1>5 DEF ListLinked, IInv, WorkKnown, DisablingKnown
<1>7. \A q \in Worker \ {u} : DOMAIN w.stored \cap DOMAIN work[q].stored = {}
  BY <1>1, <1>5 DEF IInv, WorkKnown, WritesApart
<1> QED
  BY <1>1, <1>4, <1>5, <1>6, <1>7, OwnStep DEF ListLinked

LEMMA FreeStep ==
  ASSUME IInv, NEW u \in Disabler, NEW t \in Tx, FreeRow(u, t) PROVE IInv'
<1>1. u \in Worker /\ work[u] \in WorkState /\ u \notin Detector
  BY RecurringAssumption DEF IInv, TypeOK, Worker
<1>2. PICK f : f = IF row[t].series = work[u].target THEN With(work[u].links, t, 0)
                                                     ELSE work[u].links
  OBVIOUS
<1>3. work[u].links \in Partial(Tx, SeriesId \cup {0})
  BY <1>1, WorkTyped DEF IInv
<1>4. \A y \in DOMAIN work[u].links : work[u].links[y] = 0
  BY DEF IInv, WorkKnown, DisablingKnown
<1>5. /\ f \in Partial(Tx, SeriesId \cup {0}) /\ \A y \in DOMAIN f : f[y] = 0
      /\ DOMAIN work[u].links \subseteq DOMAIN f
      /\ row[t].series = work[u].target => t \in DOMAIN f
  <2>1. CASE row[t].series = work[u].target
    <3>1. f = With(work[u].links, t, 0) /\ 0 \in SeriesId \cup {0}
      BY <1>2, <2>1
    <3>2. f \in Partial(Tx, SeriesId \cup {0}) /\ Changed(f, work[u].links, t, 0)
      BY <1>3, <3>1, WithTyped
    <3> QED
      BY <1>4, <3>2 DEF Changed
  <2>2. CASE row[t].series # work[u].target
    BY <1>2, <1>3, <1>4, <2>2
  <2> QED
    BY <2>1, <2>2
<1>6. PICK w : w = [work[u] EXCEPT !.rows = @ \ {t}, !.links = f]
  OBVIOUS
<1>7. work' = [work EXCEPT ![u] = w]
  BY <1>1, <1>2, <1>6 DEF FreeRow
<1>8. /\ w \in WorkState
      /\ w.stored = work[u].stored /\ w.links = f /\ w.target = work[u].target
      /\ w.rows = work[u].rows \ {t} /\ w.pc = work[u].pc
  BY <1>1, <1>5, <1>6 DEF WorkState
<1>9. DisablingKnown(w)
  BY <1>5, <1>8 DEF FreeRow, IInv, WorkKnown, DisablingKnown
<1>10. \A q \in Worker \ {u} : DOMAIN w.stored \cap DOMAIN work[q].stored = {}
  BY <1>1, <1>8 DEF IInv, WorkKnown, WritesApart
<1> QED
  BY <1>1, <1>7, <1>8, <1>9, <1>10, OwnStep DEF FreeRow

LEMMA CommitStep ==
  ASSUME IInv, NEW p \in Worker, Commit(p) PROVE IInv'
<1>1. /\ p \in Detector \/ p \in Disabler
      /\ series' = Visible(p)
      /\ work' = [work EXCEPT ![p] = Idle]
      /\ row' = [t \in Tx |-> IF t \in DOMAIN work[p].links
                              THEN [row[t] EXCEPT !.series = work[p].links[t]] ELSE row[t]]
  BY DEF Commit, Worker
<1>2. /\ series' \in Partial(SeriesId, Series)
      /\ DOMAIN series' = DOMAIN series \cup DOMAIN work[p].stored
      /\ \A s \in DOMAIN series \ DOMAIN work[p].stored : series'[s] = series[s]
  BY <1>1, VisibleTyped DEF IInv
<1>3. \A t \in DOMAIN work[p].links :
        /\ work[p].links[t] \in SeriesId \cup {0}
        /\ work[p].links[t] \in DOMAIN work[p].stored \/ work[p].links[t] = 0
        /\ p \in Detector => work[p].links[t] \in DOMAIN work[p].stored
        /\ p \in Disabler => work[p].links[t] = 0
  BY <1>1, WorkTyped DEF IInv, WorkKnown, DetectionKnown, DisablingKnown
<1>4. \A t \in Tx : row[t] \in RowState
  BY DEF IInv, TypeOK
<1>5. \A t \in Tx : /\ row'[t] \in RowState
                    /\ row'[t].series = IF t \in DOMAIN work[p].links
                                        THEN work[p].links[t] ELSE row[t].series
  BY <1>1, <1>3, <1>4 DEF RowState
<1>6. TypeOK'
  <2>1. row' \in [Tx -> RowState]
    BY <1>1, <1>5
  <2>2. work' \in [Worker -> WorkState]
    BY <1>1, IdleTyped DEF IInv, TypeOK
  <2> QED
    BY <1>2, <2>1, <2>2 DEF TypeOK
<1>7. work'[p] = Idle /\ \A q \in Worker \ {p} : work'[q] = work[q]
  BY <1>1 DEF IInv, TypeOK
<1>8. \A q \in Worker \ {p} : DOMAIN work[q].stored \cap DOMAIN work[p].stored = {}
  BY DEF IInv, WorkKnown, WritesApart
<1>9. \A d \in Detector : DetectionKnown(work[d])'
  <2> SUFFICES ASSUME NEW d \in Detector PROVE DetectionKnown(work[d])'
    OBVIOUS
  <2>1. CASE d = p
    BY <2>1, <1>7, IdleKnown, NothingTyped DEF DetectionKnown, Idle, Nothing
  <2>2. CASE d # p
    <3>1. d \in Worker /\ work'[d] = work[d] /\ DetectionKnown(work[d])
          /\ DOMAIN work[d].stored \cap DOMAIN work[p].stored = {}
      BY <2>2, <1>7, <1>8 DEF Worker, IInv, WorkKnown
    <3> QED
      BY <3>1, <1>2 DEF DetectionKnown
  <2> QED
    BY <2>1, <2>2
<1>10. \A u \in Disabler : DisablingKnown(work[u])'
  <2> SUFFICES ASSUME NEW u \in Disabler PROVE DisablingKnown(work[u])'
    OBVIOUS
  <2>1. CASE u = p
    BY <2>1, <1>7, IdleKnown, NothingTyped DEF DisablingKnown, Idle, Nothing
  <2>2. CASE u # p
    <3>1. u \in Worker /\ work'[u] = work[u] /\ DisablingKnown(work[u])
          /\ DOMAIN work[u].stored \cap DOMAIN work[p].stored = {}
      BY <2>2, <1>7, <1>8 DEF Worker, IInv, WorkKnown
    <3>2. ASSUME work[u].pc = "free"
          PROVE  \A t \in Tx : row'[t].series = work[u].target
                   => t \in work[u].rows \cup DOMAIN work[u].links
      <4> SUFFICES ASSUME NEW t \in Tx, row'[t].series = work[u].target
                   PROVE  t \in work[u].rows \cup DOMAIN work[u].links
        OBVIOUS
      <4>1. work[u].target \in DOMAIN work[u].stored /\ work[u].target \in DOMAIN series
        BY <3>1, <3>2 DEF DisablingKnown
      <4>2. work[u].target # 0
        BY <4>1, <3>1, WorkTyped, IdsTyped DEF IInv
      <4>3. t \notin DOMAIN work[p].links
        BY <1>3, <1>5, <3>1, <4>1, <4>2
      <4>4. row[t].series = work[u].target
        BY <1>5, <4>3
      <4> QED
        BY <3>1, <3>2, <4>4 DEF DisablingKnown
    <3> QED
      BY <3>1, <3>2, <1>2 DEF DisablingKnown
  <2> QED
    BY <2>1, <2>2
<1>11. WritesApart'
  BY <1>7, IdleKnown DEF IInv, WorkKnown, WritesApart
<1> QED
  BY <1>6, <1>9, <1>10, <1>11 DEF IInv, WorkKnown

LEMMA DecisionStep ==
  ASSUME IInv, NEW s \in SeriesId, Confirm(s) \/ \E n \in Name : Update(s, n)
  PROVE  IInv' /\ series'[s].confirmed /\ DOMAIN series' = DOMAIN series
         /\ series[s].active /\ series'[s].active
         /\ \A y \in DOMAIN series \ {s} : series'[y] = series[y]
<1>1. /\ s \in DOMAIN series /\ series[s].active /\ UNCHANGED <<row, work>>
      /\ \A p \in Worker : s \notin DOMAIN work[p].stored
  BY DEF Confirm, Update, SeriesFree
<1>2. PICK D \in SUBSET SeriesId : series \in [D -> Series]
  BY DEF IInv, TypeOK, Partial
<1>3. series' \in [D -> Series] /\ DOMAIN series' = DOMAIN series
      /\ (\A y \in DOMAIN series \ {s} : series'[y] = series[y])
      /\ series'[s].confirmed /\ series'[s].active
  <2>1. CASE Confirm(s)
    BY <2>1, <1>1, <1>2 DEF Confirm, Series
  <2>2. ASSUME NEW n \in Name, Update(s, n)
        PROVE  series' \in [D -> Series] /\ DOMAIN series' = DOMAIN series
               /\ (\A y \in DOMAIN series \ {s} : series'[y] = series[y])
               /\ series'[s].confirmed /\ series'[s].active
    <3>1. PICK v : v = [series[s] EXCEPT !.name = n, !.terms = "edited", !.confirmed = TRUE]
      OBVIOUS
    <3>2. series[s] \in Series
      BY <1>1, <1>2
    <3>3. v \in Series /\ v.confirmed /\ v.active
      BY <1>1, <3>1, <3>2 DEF Series
    <3>4. series' = [series EXCEPT ![s] = v]
      BY <2>2, <1>1, <1>2, <3>1 DEF Update
    <3> QED
      BY <1>1, <1>2, <3>3, <3>4
  <2> QED
    BY <2>1, <2>2
<1>4. TypeOK'
  <2>1. series' \in Partial(SeriesId, Series)
    BY <1>3 DEF Partial
  <2> QED
    BY <1>1, <1>3, <2>1 DEF IInv, TypeOK
<1>5. WorkKnown'
  <2>1. \A d \in Detector : DetectionKnown(work[d])'
    <3> SUFFICES ASSUME NEW d \in Detector PROVE DetectionKnown(work[d])'
      OBVIOUS
    <3>1. d \in Worker /\ DetectionKnown(work[d]) /\ s \notin DOMAIN work[d].stored
      BY <1>1 DEF Worker, IInv, WorkKnown
    <3> QED
      BY <1>1, <1>3, <3>1 DEF DetectionKnown
  <2>2. \A u \in Disabler : DisablingKnown(work[u])'
    BY <1>1, <1>3 DEF IInv, WorkKnown, DisablingKnown
  <2> QED
    BY <1>1, <2>1, <2>2 DEF IInv, WorkKnown, WritesApart
<1> QED
  BY <1>1, <1>3, <1>4, <1>5 DEF IInv

LEMMA RecategorizeStep ==
  ASSUME IInv, NEW t \in Tx, NEW n \in Name, NEW c \in Category \cup {Null},
         Recategorize(t, n, c)
  PROVE  IInv' /\ \A y \in Tx : row'[y].series = row[y].series
<1>1. /\ row' \in [Tx -> RowState] /\ \A y \in Tx : row'[y].series = row[y].series
      /\ UNCHANGED <<series, work>>
  BY DEF Recategorize, IInv, TypeOK, RowState
<1>2. TypeOK'
  BY <1>1 DEF IInv, TypeOK
<1>3. WorkKnown'
  BY <1>1 DEF IInv, WorkKnown, DetectionKnown, DisablingKnown, WritesApart
<1> QED
  BY <1>1, <1>2, <1>3 DEF IInv

(* Every reachable state satisfies the inductive invariant: the types of the *)
(* state, what a detection and a disabling know of the series between their  *)
(* statements, and that no two of them write the same series at once.        *)
THEOREM Invariance == Spec => []IInv
<1>1. Init => IInv
  <2> SUFFICES ASSUME Init PROVE IInv
    OBVIOUS
  <2>1. \A p \in Worker : work[p] = Idle
    BY DEF Init
  <2>2. series = Nothing /\ DOMAIN series = {} /\ series \in Partial(SeriesId, Series)
    BY NothingTyped DEF Init
  <2>3. TypeOK
    BY <2>2, IdleTyped DEF Init, TypeOK, RowState
  <2>4. WorkKnown
    BY <2>1, IdleKnown DEF WorkKnown, WritesApart, Worker
  <2> QED
    BY <2>3, <2>4 DEF IInv
<1>2. IInv /\ [Next]_vars => IInv'
  <2> SUFFICES ASSUME IInv, [Next]_vars PROVE IInv'
    OBVIOUS
  <2>1. ASSUME NEW d \in Detector, Detect(d) PROVE IInv'
    BY <2>1, DetectStep
  <2>2. ASSUME NEW d \in Detector, DetectorStep(d) PROVE IInv'
    <3>1. d \in Worker
      BY DEF Worker
    <3>2. CASE SelectSeries(d)
      BY <3>2, SelectStep
    <3>3. CASE InsertSeries(d)
      BY <3>3, InsertStep
    <3>4. CASE OutOfIds(d)
      BY <3>1, <3>4, RollbackStep DEF OutOfIds
    <3>5. CASE UpdateSeries(d)
      BY <3>5, UpdateSeriesStep
    <3>6. CASE \E t \in Tx : LinkRow(d, t)
      BY <3>6, LinkStep
    <3>7. CASE Commit(d)
      BY <3>1, <3>7, CommitStep
    <3>8. CASE BreakDeadlock(d)
      BY <3>1, <3>8, RollbackStep DEF BreakDeadlock
    <3> QED
      BY <2>2, <3>2, <3>3, <3>4, <3>5, <3>6, <3>7, <3>8 DEF DetectorStep
  <2>3. ASSUME NEW u \in Disabler, NEW s \in SeriesId, Disable(u, s) PROVE IInv'
    BY <2>3, DisableStep
  <2>4. ASSUME NEW u \in Disabler, DisablerStep(u) PROVE IInv'
    <3>1. u \in Worker
      BY DEF Worker
    <3>2. CASE ListLinked(u)
      BY <3>2, ListStep
    <3>3. CASE \E t \in Tx : FreeRow(u, t)
      BY <3>3, FreeStep
    <3>4. CASE Commit(u)
      BY <3>1, <3>4, CommitStep
    <3>5. CASE BreakDeadlock(u)
      BY <3>1, <3>5, RollbackStep DEF BreakDeadlock
    <3> QED
      BY <2>4, <3>2, <3>3, <3>4, <3>5 DEF DisablerStep
  <2>5. ASSUME NEW p \in Worker, Rollback(p) PROVE IInv'
    BY <2>5, RollbackStep
  <2>6. ASSUME NEW s \in SeriesId, Confirm(s) \/ \E n \in Name : Update(s, n) PROVE IInv'
    BY <2>6, DecisionStep
  <2>7. ASSUME NEW t \in Tx, NEW n \in Name, NEW c \in Category \cup {Null},
               Recategorize(t, n, c)
        PROVE  IInv'
    BY <2>7, RecategorizeStep
  <2>8. CASE UNCHANGED vars
    BY <2>8 DEF vars, IInv, TypeOK, WorkKnown, DetectionKnown, DisablingKnown, WritesApart
  <2> QED
    BY <2>1, <2>2, <2>3, <2>4, <2>5, <2>6, <2>7, <2>8 DEF Next
<1> QED
  BY <1>1, <1>2, PTL DEF Spec

\* Tables and transactions keep their types, and no series is ever confirmed
\* and disabled at once, whatever confirmations and edits waited for the request
\* that disabled it (confirmRecurring, updateRecurring).
THEOREM TypeCorrect == Spec => []TypeOK
<1>1. IInv => TypeOK
  BY DEF IInv
<1> QED
  BY <1>1, Invariance, PTL

------------------------------------------------------------------------------
(* What a step does to a series: it was committed by a transaction that      *)
(* wrote it, decided on by the user, or left alone.                          *)

SeriesMoves(s) ==
  \/ \E p \in Worker : Commit(p) /\ s \in DOMAIN work[p].stored
                       /\ series'[s] = work[p].stored[s]
  \/ series[s].active /\ series'[s].active /\ series'[s].confirmed
  \/ series'[s] = series[s]

LEMMA SeriesMove ==
  ASSUME IInv, [Next]_vars, NEW s \in DOMAIN series
  PROVE  s \in DOMAIN series' /\ SeriesMoves(s)
<1>1. ASSUME NEW p \in Worker, Commit(p) PROVE s \in DOMAIN series' /\ SeriesMoves(s)
  <2>1. series' = Visible(p)
    BY <1>1 DEF Commit
  <2>2. CASE s \in DOMAIN work[p].stored
    BY <1>1, <2>1, <2>2, VisibleTyped DEF IInv, SeriesMoves
  <2>3. CASE s \notin DOMAIN work[p].stored
    BY <2>1, <2>3, VisibleTyped DEF IInv, SeriesMoves
  <2> QED
    BY <2>2, <2>3
<1>2. ASSUME NEW y \in SeriesId, Confirm(y) \/ \E n \in Name : Update(y, n)
      PROVE  s \in DOMAIN series' /\ SeriesMoves(s)
  BY <1>2, DecisionStep DEF SeriesMoves
<1>3. ASSUME UNCHANGED series PROVE s \in DOMAIN series' /\ SeriesMoves(s)
  BY <1>3 DEF SeriesMoves
<1>4. \/ \E p \in Worker : Commit(p)
      \/ \E y \in SeriesId : Confirm(y) \/ \E n \in Name : Update(y, n)
      \/ UNCHANGED series
  BY DEF Next, Worker, vars, Detect, DetectorStep, SelectSeries, InsertSeries, OutOfIds,
         UpdateSeries, LinkRow, BreakDeadlock, Rollback, Disable, DisablerStep, ListLinked,
         FreeRow, Recategorize
<1> QED
  BY <1>1, <1>2, <1>3, <1>4

\* A confirmed series stays confirmed until it is disabled, however many
\* detections and disabling requests overlap (upsertRecurringSeries).
THEOREM ConfirmationsHold == Spec => ConfirmationsStand
<1>1. ASSUME IInv, [Next]_vars, NEW s \in DOMAIN series,
             series[s].confirmed, series'[s].active
      PROVE  series'[s].confirmed
  <2>1. SeriesMoves(s)
    BY <1>1, SeriesMove
  <2>2. ASSUME NEW p \in Worker, s \in DOMAIN work[p].stored, Commit(p),
               series'[s] = work[p].stored[s]
        PROVE  series'[s].confirmed
    <3>1. CASE p \in Detector
      BY <1>1, <2>2, <3>1 DEF IInv, WorkKnown, DetectionKnown
    <3>2. CASE p \in Disabler
      BY <1>1, <2>2, <3>2 DEF IInv, WorkKnown, DisablingKnown
    <3> QED
      BY <3>1, <3>2 DEF Worker
  <2> QED
    BY <1>1, <2>1, <2>2 DEF SeriesMoves
<1>2. IInv /\ [Next]_vars =>
        [\A s \in DOMAIN series :
           series[s].confirmed /\ series'[s].active => series'[s].confirmed]_vars
  BY <1>1
<1> QED
  BY <1>2, Invariance, PTL DEF Spec, ConfirmationsStand

------------------------------------------------------------------------------
(* What a step does to a detection, and to the series of the rows            *)

LEMMA DetectionMove ==
  ASSUME IInv, [Next]_vars, NEW d \in Detector
  PROVE  \/ work'[d] \in {work[d], Idle}
         \/ Detect(d) \/ SelectSeries(d) \/ InsertSeries(d) \/ UpdateSeries(d)
         \/ \E t \in Tx : LinkRow(d, t)
<1>1. work \in [Worker -> WorkState] /\ d \in Worker
  BY DEF IInv, TypeOK, Worker
<1>2. ASSUME NEW p \in Worker, Rollback(p) \/ Commit(p) PROVE work'[d] \in {work[d], Idle}
  BY <1>1, <1>2 DEF Rollback, Commit
<1>3. ASSUME NEW e \in Detector, e # d,
             \/ Detect(e) \/ SelectSeries(e) \/ InsertSeries(e) \/ UpdateSeries(e)
             \/ \E t \in Tx : LinkRow(e, t)
      PROVE  work'[d] = work[d]
  <2>1. CASE Detect(e)
    BY <1>1, <1>3, <2>1 DEF Detect
  <2>2. CASE SelectSeries(e)
    BY <1>1, <1>3, <2>2 DEF SelectSeries
  <2>3. CASE InsertSeries(e)
    BY <1>1, <1>3, <2>3 DEF InsertSeries
  <2>4. CASE UpdateSeries(e)
    BY <1>1, <1>3, <2>4 DEF UpdateSeries
  <2>5. CASE \E t \in Tx : LinkRow(e, t)
    BY <1>1, <1>3, <2>5 DEF LinkRow
  <2> QED
    BY <1>3, <2>1, <2>2, <2>3, <2>4, <2>5
<1>4. ASSUME NEW u \in Disabler,
             \/ \E s \in SeriesId : Disable(u, s)
             \/ ListLinked(u) \/ \E t \in Tx : FreeRow(u, t)
      PROVE  work'[d] = work[d]
  <2>1. u # d
    BY RecurringAssumption
  <2>2. CASE \E s \in SeriesId : Disable(u, s)
    BY <1>1, <2>1, <2>2 DEF Disable
  <2>3. CASE ListLinked(u)
    BY <1>1, <2>1, <2>3 DEF ListLinked
  <2>4. CASE \E t \in Tx : FreeRow(u, t)
    BY <1>1, <2>1, <2>4 DEF FreeRow
  <2> QED
    BY <1>4, <2>2, <2>3, <2>4
<1>5. ASSUME UNCHANGED work PROVE work'[d] = work[d]
  BY <1>5
<1>6. \/ \E p \in Worker : Rollback(p) \/ Commit(p)
      \/ \E e \in Detector :
           \/ Detect(e) \/ SelectSeries(e) \/ InsertSeries(e) \/ UpdateSeries(e)
           \/ \E t \in Tx : LinkRow(e, t)
      \/ \E u \in Disabler :
           \/ \E s \in SeriesId : Disable(u, s)
           \/ ListLinked(u) \/ \E t \in Tx : FreeRow(u, t)
      \/ UNCHANGED work
  <2>1. ASSUME NEW e \in Detector, DetectorStep(e)
        PROVE  \/ Rollback(e) \/ Commit(e) \/ SelectSeries(e) \/ InsertSeries(e)
               \/ UpdateSeries(e) \/ \E t \in Tx : LinkRow(e, t)
    BY <2>1 DEF DetectorStep, OutOfIds, BreakDeadlock
  <2>2. ASSUME NEW u \in Disabler, DisablerStep(u)
        PROVE  Rollback(u) \/ Commit(u) \/ ListLinked(u) \/ \E t \in Tx : FreeRow(u, t)
    BY <2>2 DEF DisablerStep, BreakDeadlock
  <2>3. (\E s \in SeriesId : Confirm(s) \/ \E n \in Name : Update(s, n)) => UNCHANGED work
    BY DEF Confirm, Update
  <2>4. (\E t \in Tx, n \in Name, c \in Category \cup {Null} : Recategorize(t, n, c))
          => UNCHANGED work
    BY DEF Recategorize
  <2> QED
    BY <2>1, <2>2, <2>3, <2>4 DEF Next, Worker, vars
<1> QED
  BY <1>2, <1>3, <1>4, <1>5, <1>6

LEMMA RowMove ==
  ASSUME IInv, [Next]_vars, NEW t \in Tx
  PROVE  \/ row'[t].series = row[t].series
         \/ \E p \in Worker : /\ Commit(p) /\ t \in DOMAIN work[p].links
                              /\ row'[t].series = work[p].links[t]
<1>1. row \in [Tx -> RowState]
  BY DEF IInv, TypeOK
<1>2. ASSUME NEW p \in Worker, Commit(p)
      PROVE  row'[t].series = IF t \in DOMAIN work[p].links
                              THEN work[p].links[t] ELSE row[t].series
  BY <1>1, <1>2 DEF Commit, RowState
<1>3. ASSUME NEW y \in Tx, NEW n \in Name, NEW c \in Category \cup {Null},
             Recategorize(y, n, c)
      PROVE  row'[t].series = row[t].series
  BY <1>3, RecategorizeStep
<1>4. \/ \E p \in Worker : Commit(p)
      \/ \E y \in Tx, n \in Name, c \in Category \cup {Null} : Recategorize(y, n, c)
      \/ UNCHANGED row
  BY DEF Next, Worker, vars, Detect, DetectorStep, SelectSeries, InsertSeries, OutOfIds,
         UpdateSeries, LinkRow, BreakDeadlock, Rollback, Disable, DisablerStep, ListLinked,
         FreeRow, Confirm, Update
<1> QED
  BY <1>2, <1>3, <1>4

(* A detection does not come to reach a series that is inactive: it chooses  *)
(* among active ones and links rows to what it has chosen.                   *)
LEMMA StaysOutOfReach ==
  ASSUME IInv, [Next]_vars, NEW s \in SeriesId, Disabled(s), OutOfReach(s)
  PROVE  OutOfReach(s)'
<1> SUFFICES ASSUME NEW d \in Detector PROVE ~Reaches(d, s)'
  BY DEF OutOfReach
<1>1. /\ d \in Worker /\ work \in [Worker -> WorkState]
      /\ work[d] \in WorkState /\ s # 0 /\ s \in DOMAIN series /\ ~series[s].active
  BY IdsTyped DEF IInv, TypeOK, Worker, Disabled
<1>2. /\ work[d].target # s /\ s \notin DOMAIN work[d].stored
      /\ \A t \in DOMAIN work[d].links : work[d].links[t] # s
  BY DEF OutOfReach, Reaches
<1>3. CASE work'[d] = work[d]
  BY <1>2, <1>3 DEF Reaches
<1>4. CASE work'[d] = Idle
  BY <1>1, <1>4 DEF Reaches, Idle, Nothing
<1>5. CASE Detect(d)
  <2>1. /\ work'[d].target = work[d].target /\ work'[d].stored = work[d].stored
        /\ work'[d].links = work[d].links
    BY <1>1, <1>5 DEF Detect, WorkState
  <2> QED
    BY <1>2, <2>1 DEF Reaches
<1>6. CASE SelectSeries(d)
  <2>1. ASSUME NEW n PROVE s \notin SeriesOf(d, n)
    BY <1>1, <1>2, VisibleTyped DEF SeriesOf, IInv
  <2>2. /\ work'[d].target # s /\ work'[d].stored = work[d].stored
        /\ work'[d].links = work[d].links
    BY <1>1, <1>6, <2>1 DEF SelectSeries, WorkState
  <2> QED
    BY <1>2, <2>2 DEF Reaches
<1>7. CASE InsertSeries(d)
  <2>1. PICK i \in Unused, v \in Series :
          work' = [work EXCEPT ![d].pc = "link", ![d].target = i,
                               ![d].stored = With(work[d].stored, i, v)]
    <3>1. [name |-> work[d].name, terms |-> "detected", confirmed |-> FALSE, active |-> TRUE]
            \in Series
      BY <1>7 DEF InsertSeries, IInv, WorkKnown, DetectionKnown, Series
    <3> QED
      BY <1>1, <1>7, <3>1 DEF InsertSeries
  <2>2. i # s /\ i \in SeriesId
    BY <1>1, VisibleTyped DEF Unused, IInv
  <2>3. Changed(With(work[d].stored, i, v), work[d].stored, i, v)
    BY <1>1, <2>2, WithTyped, WorkTyped DEF IInv
  <2>4. /\ work'[d].target = i /\ work'[d].stored = With(work[d].stored, i, v)
        /\ work'[d].links = work[d].links
    BY <1>1, <2>1 DEF WorkState
  <2> QED
    BY <1>2, <2>2, <2>3, <2>4 DEF Reaches, Changed
<1>8. CASE UpdateSeries(d)
  <2>1. PICK v : v = [Visible(d)[work[d].target] EXCEPT !.terms = "detected"]
    OBVIOUS
  <2>2. /\ work[d].target \in DOMAIN Visible(d) /\ work[d].target \in SeriesId
        /\ Visible(d)[work[d].target] \in Series
    BY <1>1, <1>8, VisibleTyped DEF UpdateSeries, IInv, WorkKnown, DetectionKnown
  <2>3. v \in Series
    BY <2>1, <2>2 DEF Series
  <2>4. Changed(With(work[d].stored, work[d].target, v), work[d].stored, work[d].target, v)
    BY <1>1, <2>2, <2>3, WithTyped, WorkTyped DEF IInv
  <2>5. /\ work'[d].target = work[d].target /\ work'[d].links = work[d].links
        /\ work'[d].stored = With(work[d].stored, work[d].target, v)
    BY <1>1, <1>8, <2>1 DEF UpdateSeries, WorkState
  <2> QED
    BY <1>2, <2>4, <2>5 DEF Reaches, Changed
<1>9. ASSUME NEW t \in Tx, LinkRow(d, t) PROVE ~Reaches(d, s)'
  <2>1. Changed(With(work[d].links, t, work[d].target), work[d].links, t, work[d].target)
    BY <1>1, WithTyped, WorkTyped DEF IInv, WorkState
  <2>2. /\ work'[d].target = work[d].target /\ work'[d].stored = work[d].stored
        /\ work'[d].links = With(work[d].links, t, work[d].target)
    BY <1>1, <1>9 DEF LinkRow, WorkState
  <2> QED
    BY <1>2, <2>1, <2>2 DEF Reaches, Changed
<1> QED
  BY <1>3, <1>4, <1>5, <1>6, <1>7, <1>8, <1>9, DetectionMove

\* A disabled series out of reach keeps its state and gets no row, whatever
\* detections, decisions and corrections follow (upsertRecurringSeries).
THEOREM DisabledRest == Spec => DisabledSeriesRest
<1>1. ASSUME IInv, [Next]_vars, NEW s \in SeriesId, Disabled(s), OutOfReach(s), NoRows(s)
      PROVE  Disabled(s)' /\ OutOfReach(s)' /\ NoRows(s)'
  <2>1. /\ s # 0 /\ \A d \in Detector : /\ s \notin DOMAIN work[d].stored
                               /\ \A t \in DOMAIN work[d].links : work[d].links[t] # s
    BY <1>1, IdsTyped DEF OutOfReach, Reaches
  <2>2. OutOfReach(s)'
    BY <1>1, StaysOutOfReach
  <2>3. Disabled(s)'
    <3>1. s \in DOMAIN series' /\ SeriesMoves(s) /\ ~series[s].active
      BY <1>1, SeriesMove DEF Disabled
    <3>2. ASSUME NEW p \in Worker, s \in DOMAIN work[p].stored
          PROVE  ~work[p].stored[s].active
      <4>1. p \in Disabler
        BY <2>1, <3>2 DEF Worker
      <4> QED
        BY <1>1, <3>2, <4>1 DEF IInv, WorkKnown, DisablingKnown
    <3> QED
      BY <3>1, <3>2 DEF SeriesMoves, Disabled
  <2>4. NoRows(s)'
    <3> SUFFICES ASSUME NEW t \in Tx PROVE row'[t].series # s
      BY DEF NoRows
    <3>1. row[t].series # s
      BY <1>1 DEF NoRows
    <3>2. ASSUME NEW p \in Worker, t \in DOMAIN work[p].links PROVE work[p].links[t] # s
      BY <1>1, <2>1, <3>2 DEF Worker, IInv, WorkKnown, DisablingKnown
    <3> QED
      BY <1>1, <3>1, <3>2, RowMove
  <2> QED
    BY <2>2, <2>3, <2>4
<1>2. IInv /\ [Next]_vars =>
        [\A s \in SeriesId : Disabled(s) /\ OutOfReach(s) /\ NoRows(s)
           => (Disabled(s) /\ OutOfReach(s) /\ NoRows(s))']_vars
  BY <1>1
<1> QED
  BY <1>2, Invariance, PTL DEF Spec, DisabledSeriesRest

\* Disabling a series out of reach takes every row from it, whoever held the
\* rows when it began (disableRecurring).
THEOREM DisablingFrees == Spec => DisableFreesRows
<1>1. ASSUME IInv, [Next]_vars, NEW s \in DOMAIN series,
             series[s].active, ~series'[s].active, OutOfReach(s)
      PROVE  NoRows(s)'
  <2>1. s \in SeriesId /\ s # 0
    BY <1>1, IdsTyped, PartialTyped DEF IInv, TypeOK
  <2>2. PICK p \in Worker : Commit(p) /\ s \in DOMAIN work[p].stored
    BY <1>1, SeriesMove DEF SeriesMoves
  <2>3. p \in Disabler
    BY <1>1, <2>2 DEF OutOfReach, Reaches, Worker
  <2>4. /\ work[p].pc = "free" /\ work[p].rows = {} /\ work[p].target = s
        /\ \A t \in DOMAIN work[p].links : work[p].links[t] = 0
        /\ \A t \in Tx : row[t].series = s => t \in DOMAIN work[p].links
    BY <1>1, <2>2, <2>3 DEF Commit, IInv, WorkKnown, DisablingKnown
  <2>5. ASSUME NEW t \in Tx PROVE row'[t].series # s
    <3>1. row \in [Tx -> RowState]
      BY <1>1 DEF IInv, TypeOK
    <3>2. row'[t].series = IF t \in DOMAIN work[p].links
                           THEN work[p].links[t] ELSE row[t].series
      BY <2>2, <3>1 DEF Commit, RowState
    <3> QED
      BY <2>1, <2>4, <3>2
  <2> QED
    BY <2>5 DEF NoRows
<1>2. IInv /\ [Next]_vars =>
        [\A s \in DOMAIN series :
           series[s].active /\ ~series'[s].active /\ OutOfReach(s) => NoRows(s)']_vars
  BY <1>1
<1> QED
  BY <1>2, Invariance, PTL DEF Spec, DisableFreesRows
=============================================================================
