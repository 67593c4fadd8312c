------------------------ MODULE ConnectorSyncProofs ------------------------
(***************************************************************************)
(* Proofs about ConnectorSync, for any library, instances, settings and    *)
(* bounds: types, rows that stand for ingested content, and the reasons    *)
(* for which the cursor may pass over content.                             *)
(***************************************************************************)
EXTENDS ConnectorSync, TLAPS

USE Constants

-----------------------------------------------------------------------------
(* The inductive invariant. *)

Fit == Artifacts \ setting.unfit

(* The present content of an artifact was ingested, or passed over for a     *)
(* reason; and so was everything written up to an instant.                   *)
Dealt(a) == <<a, upstream[a]>> \in submitted \cup passed
Covered(n) == \A a \in Fit : upstream[a] \in 1..n => Dealt(a)

Busy == {"fetch", "submit", "look", "write"}
Listing == Busy \cup {"next"}

(* A run whose listing still matters: it may move the cursor.                *)
Counts(x) == x.pc \in Listing \/ (x.pc = "advance" /\ x.status # "failed")

(* What a run knows is older than the present. *)
Past(x) ==
  /\ x.from <= now /\ x.listed <= now /\ x.to <= now
  /\ Covered(x.from)
  /\ \A a \in Artifacts :
       /\ x.refs[a] <= upstream[a]
       /\ x.refs[a] > 0 /\ upstream[a] <= x.listed => x.refs[a] = upstream[a]

(* The artifact at hand. *)
Handled(x) ==
  /\ x.pc \in Busy => x.item \in Artifacts /\ x.refs[x.item] > 0
  /\ x.pc = "fetch" /\ x.known > 0 => <<x.item, x.known>> \in submitted
  /\ x.pc \in {"submit", "look", "write"} =>
       x.refs[x.item] <= x.bytes /\ x.bytes <= upstream[x.item]
  /\ x.pc \in {"look", "write"} => <<x.item, x.bytes>> \in submitted

(* Everything listed is dealt with, still to do, failed or cut.              *)
Accounted(x) ==
  /\ Counts(x) => \A a \in Fit : upstream[a] \in 1..x.listed =>
                    Dealt(a) \/ x.refs[a] > 0 \/ a \in x.failed \cup x.cut
  /\ x.pc = "advance" /\ x.status # "failed" => x.refs = Nothing

Good(x) == Past(x) /\ Handled(x) /\ Accounted(x)

Rows ==
  \A a \in Artifacts :
    /\ row[a].hash > 0 => <<a, row[a].hash>> \in submitted
    /\ row[a].signature <= row[a].hash /\ row[a].hash <= upstream[a]

Clock == cursor <= now /\ \A a \in Artifacts : upstream[a] <= now

SyncInv == TypeOK /\ Clock /\ Rows /\ Covered(cursor) /\ \A c \in Callers : Good(sync[c])

-----------------------------------------------------------------------------
(* Steps of others leave a run good. *)

LEMMA StillCovered ==
  ASSUME NEW n, Covered(n), submitted \subseteq submitted', passed \subseteq passed',
         UNCHANGED <<upstream, setting>>
  PROVE  Covered(n)'
BY DEF Covered, Dealt, Fit

LEMMA StillGood ==
  ASSUME NEW x, Good(x), submitted \subseteq submitted', passed \subseteq passed',
         UNCHANGED <<now, upstream, setting>>
  PROVE  Good(x)'
<1>1. Past(x)' BY StillCovered DEF Good, Past
<1>2. Handled(x)' BY DEF Good, Handled
<1>3. Accounted(x)' BY DEF Good, Accounted, Counts, Dealt, Fit
<1> QED BY <1>1, <1>2, <1>3 DEF Good

(* An edit is later than whatever any run has seen. *)
LEMMA EditCovered ==
  ASSUME NEW n \in Times, n <= now, Covered(n), NEW b \in Artifacts, Edit(b), TypeOK
  PROVE  Covered(n)'
<1> SUFFICES ASSUME NEW a \in Fit', upstream'[a] \in 1..n
             PROVE  Dealt(a)'
  BY DEF Covered
<1>1. now \in Nat /\ n \in Nat /\ a \in Fit BY DEF TypeOK, Times, Edit, Fit
<1>2. upstream'[a] = upstream[a]
  BY <1>1 DEF Edit, TypeOK, Fit
<1> QED BY <1>1, <1>2 DEF Covered, Dealt, Edit

LEMMA EditGood ==
  ASSUME NEW x \in Run, Good(x), NEW b \in Artifacts, Edit(b), TypeOK, Clock
  PROVE  Good(x)'
<1>1. /\ now \in Nat /\ now' = now + 1 /\ upstream \in [Artifacts -> Times]
      /\ upstream' = [upstream EXCEPT ![b] = now + 1]
      /\ UNCHANGED <<setting, submitted, passed>>
  BY DEF Edit, TypeOK, Times
<1>2. /\ x.from \in Times /\ x.listed \in Times /\ x.to \in Times
      /\ x.refs \in [Artifacts -> Times] /\ x.bytes \in Times
  BY DEF Run
<1>3. \A a \in Artifacts : upstream[a] \in Nat /\ upstream[a] <= upstream'[a]
                           /\ (upstream'[a] <= now => upstream'[a] = upstream[a])
  BY <1>1 DEF Times, Clock
<1>4. Past(x)'
  <2>1. Covered(x.from)' BY <1>2, EditCovered DEF Good, Past
  <2> QED BY <1>1, <1>2, <1>3, <2>1 DEF Good, Past, Times
<1>5. Handled(x)' BY <1>1, <1>2, <1>3 DEF Good, Handled, Busy, Times
<1>6. Accounted(x)'
  <2>1. x.listed \in Nat /\ x.listed <= now BY <1>2 DEF Good, Past, Times
  <2>2. ASSUME Counts(x), NEW a \in Fit, upstream'[a] \in 1..x.listed
        PROVE  Dealt(a)' \/ x.refs[a] > 0 \/ a \in x.failed \cup x.cut
    <3>1. upstream'[a] = upstream[a] BY <1>1, <1>3, <2>1, <2>2 DEF Fit
    <3> QED BY <1>1, <2>2, <3>1 DEF Good, Accounted, Dealt
  <2> QED BY <1>1, <2>2 DEF Good, Accounted, Counts, Fit
<1> QED BY <1>4, <1>5, <1>6 DEF Good

-----------------------------------------------------------------------------
(* A step of a run that leaves the database alone. *)

LEMMA Untouched ==
  ASSUME SyncInv, NEW c \in Callers, NEW x \in Run, Good(x), Local,
         faults' \in 0..MaxFaults, sync' = [sync EXCEPT ![c] = x]
  PROVE  SyncInv'
<1>1. TypeOK' BY DEF SyncInv, Local, TypeOK
<1>2. Clock' /\ Rows' /\ Covered(cursor)'
  BY DEF SyncInv, Local, Clock, Rows, Covered, Dealt, Fit
<1>3. ASSUME NEW d \in Callers PROVE Good(sync[d])'
  <2>1. sync \in [Callers -> Run] BY DEF SyncInv, TypeOK
  <2>2. PICK y : y = sync'[d] OBVIOUS
  <2>3. Good(y) BY <2>1, <2>2 DEF SyncInv
  <2>4. Good(y)' BY <2>3, StillGood DEF Local
  <2> QED BY <2>2, <2>4
<1> QED BY <1>1, <1>2, <1>3 DEF SyncInv

LEMMA FaultTyped == TypeOK /\ Fault => faults' \in 0..MaxFaults
BY DEF TypeOK, Fault

LEMMA RestGood == Clock /\ TypeOK => Rest \in Run /\ Good(Rest)
<1> SUFFICES ASSUME Clock, TypeOK PROVE Rest \in Run /\ Good(Rest)
  OBVIOUS
<1>1. 0 \in Times /\ now \in Nat BY DEF Times, TypeOK
<1>2. Nothing \in [Artifacts -> Times] BY <1>1 DEF Nothing
<1>3. Rest \in Run BY <1>1, <1>2 DEF Rest, Run
<1>4. \A a \in Artifacts : upstream[a] \in Nat BY DEF TypeOK, Times
<1>5. Past(Rest) BY <1>1, <1>4 DEF Past, Rest, Covered, Nothing
<1>6. Handled(Rest) /\ Accounted(Rest)
  BY DEF Handled, Accounted, Rest, Busy, Counts, Listing
<1> QED BY <1>3, <1>5, <1>6 DEF Good

(* Onward crosses the artifact at hand off the list. *)
LEMMA OnwardShape ==
  ASSUME NEW r \in Run, r.item \in Artifacts, NEW F \in SUBSET Artifacts
  PROVE  /\ [Onward(r) EXCEPT !.landed = TRUE] \in Run
         /\ [Onward(r) EXCEPT !.failed = F] \in Run
         /\ \A y \in {[Onward(r) EXCEPT !.landed = TRUE], [Onward(r) EXCEPT !.failed = F]} :
              /\ y.pc = "next" /\ y.from = r.from /\ y.listed = r.listed /\ y.to = r.to
              /\ y.cut = r.cut /\ y.refs = [r.refs EXCEPT ![r.item] = 0]
         /\ [Onward(r) EXCEPT !.landed = TRUE].failed = r.failed
         /\ [Onward(r) EXCEPT !.failed = F].failed = F
<1>1. 0 \in Times BY DEF Times
<1>2. [r.refs EXCEPT ![r.item] = 0] \in [Artifacts -> Times] BY <1>1 DEF Run
<1>3. Onward(r) = [r EXCEPT !.pc = "next", !.refs = [r.refs EXCEPT ![r.item] = 0],
                            !.item = "none", !.known = 0, !.bytes = 0, !.found = FALSE]
  BY DEF Onward
<1>4. Onward(r) \in Run
  <2>1. \A q \in [Artifacts -> Times] :
          [r EXCEPT !.pc = "next", !.refs = q, !.item = "none", !.known = 0, !.bytes = 0,
                    !.found = FALSE] \in Run
    BY <1>1 DEF Run
  <2> QED BY ZenonT(60), <1>2, <1>3, <2>1
<1>5. /\ Onward(r).pc = "next" /\ Onward(r).from = r.from /\ Onward(r).listed = r.listed
      /\ Onward(r).to = r.to /\ Onward(r).cut = r.cut /\ Onward(r).failed = r.failed
      /\ Onward(r).refs = [r.refs EXCEPT ![r.item] = 0]
  BY <1>3 DEF Run
<1> DEFINE o == Onward(r)
<1> HIDE DEF o
<1>6. /\ [o EXCEPT !.landed = TRUE] \in Run
      /\ [o EXCEPT !.failed = F] \in Run
      /\ \A y \in {[o EXCEPT !.landed = TRUE], [o EXCEPT !.failed = F]} :
           /\ y.pc = o.pc /\ y.from = o.from /\ y.listed = o.listed /\ y.to = o.to
           /\ y.cut = o.cut /\ y.refs = o.refs
      /\ [o EXCEPT !.landed = TRUE].failed = o.failed
      /\ [o EXCEPT !.failed = F].failed = F
  <2>1. o \in Run BY <1>4 DEF o
  <2> QED BY ZenonT(60), <2>1 DEF Run
<1> QED BY <1>5, <1>6 DEF o

(* Crossing an artifact off the list is fine if it is dealt with, unfit,     *)
(* failed, or changed since the listing.                                     *)
LEMMA CrossedOff ==
  ASSUME TypeOK, NEW r \in Run, Good(r), r.pc \in Listing, NEW i \in Artifacts,
         NEW y \in Run, y.pc = "next", y.from = r.from, y.listed = r.listed, y.to = r.to,
         y.cut = r.cut, r.failed \subseteq y.failed, y.refs = [r.refs EXCEPT ![i] = 0],
         i \in Fit /\ upstream[i] \in 1..r.listed => Dealt(i) \/ i \in y.failed
  PROVE  Good(y)
<1>1. r.refs \in [Artifacts -> Times] /\ upstream \in [Artifacts -> Times]
  BY DEF Run, TypeOK
<1>2. y.refs[i] = 0 /\ \A a \in Artifacts : a # i => y.refs[a] = r.refs[a] BY <1>1
<1>3. \A a \in Artifacts : r.refs[a] \in Nat /\ upstream[a] \in Nat BY <1>1 DEF Times
<1>4. Past(y) BY <1>2, <1>3 DEF Good, Past
<1>5. Handled(y) BY DEF Handled, Busy
<1>6. Counts(r) BY DEF Counts
<1>7. ASSUME NEW a \in Fit, upstream[a] \in 1..y.listed
      PROVE  Dealt(a) \/ y.refs[a] > 0 \/ a \in y.failed \cup y.cut
  <2>1. CASE a = i BY <1>7, <2>1
  <2>2. CASE a # i BY <1>2, <1>6, <1>7, <2>2 DEF Good, Accounted, Fit
  <2> QED BY <2>1, <2>2
<1>8. Accounted(y) BY <1>7 DEF Accounted
<1> QED BY <1>4, <1>5, <1>8 DEF Good

-----------------------------------------------------------------------------
(* Beginning and listing. *)

LEMMA StepBegin ==
  ASSUME SyncInv, NEW c \in Callers, Begin(c)
  PROVE  SyncInv'
<1>1. TypeOK /\ Clock /\ Rest \in Run /\ Good(Rest) /\ Covered(cursor)
  BY RestGood DEF SyncInv
<1>2. PICK x : x = [Rest EXCEPT !.pc = "list", !.from = cursor] OBVIOUS
<1>3. x \in Run BY <1>1, <1>2 DEF TypeOK, Run
<1>4. /\ x.pc = "list" /\ x.from = cursor /\ x.listed = Rest.listed /\ x.to = Rest.to
      /\ x.refs = Rest.refs
  BY <1>1, <1>2 DEF Run
<1>5. Good(x)
  <2>1. Past(x) BY <1>1, <1>4 DEF Good, Past, Clock
  <2>2. Handled(x) /\ Accounted(x) BY <1>4 DEF Handled, Accounted, Counts, Busy, Listing
  <2> QED BY <2>1, <2>2 DEF Good
<1>6. sync' = [sync EXCEPT ![c] = x] /\ Local /\ faults' \in 0..MaxFaults
  BY <1>1, <1>2 DEF Begin, TypeOK
<1> QED BY <1>3, <1>5, <1>6, Untouched

LEMMA StepList ==
  ASSUME SyncInv, NEW c \in Callers, List(c)
  PROVE  SyncInv'
<1>1. PICK r \in Run : r = sync[c] /\ Good(r) BY DEF SyncInv, TypeOK
<1>2. PICK kept, x :
        /\ kept \in SUBSET Listed(r.from)
        /\ x = [r EXCEPT !.pc = "next", !.listed = now,
                         !.refs = [a \in Artifacts |-> IF a \in kept THEN upstream[a] ELSE 0],
                         !.cut = Listed(r.from) \ kept]
        /\ sync' = [sync EXCEPT ![c] = x]
  <2>1. PICK kept \in SUBSET Listed(sync[c].from) :
          sync' = [sync EXCEPT ![c].pc = "next", ![c].listed = now,
                     ![c].refs = [a \in Artifacts |-> IF a \in kept THEN upstream[a] ELSE 0],
                     ![c].cut = Listed(sync[c].from) \ kept]
    BY Zenon DEF List
  <2>2. PICK x :
          x = [r EXCEPT !.pc = "next", !.listed = now,
                        !.refs = [a \in Artifacts |-> IF a \in kept THEN upstream[a] ELSE 0],
                        !.cut = Listed(r.from) \ kept]
    OBVIOUS
  <2>3. sync \in [Callers -> Run] BY DEF SyncInv, TypeOK
  <2>4. sync' = [sync EXCEPT ![c] = x] BY <1>1, <2>1, <2>2, <2>3
  <2> QED BY <1>1, <2>2, <2>4
<1>3. /\ now \in Times /\ upstream \in [Artifacts -> Times] /\ 0 \in Times
      /\ Listed(r.from) \subseteq Artifacts
  BY DEF SyncInv, TypeOK, Times, Listed
<1>4. x \in Run
  <2>1. [a \in Artifacts |-> IF a \in kept THEN upstream[a] ELSE 0] \in [Artifacts -> Times]
    BY <1>3
  <2> QED BY <1>2, <1>3, <2>1 DEF Run
<1>5. /\ x.pc = "next" /\ x.listed = now /\ x.from = r.from /\ x.to = r.to
      /\ x.refs = [a \in Artifacts |-> IF a \in kept THEN upstream[a] ELSE 0]
      /\ x.cut = Listed(r.from) \ kept /\ x.failed = r.failed
  BY <1>2 DEF Run
<1>6. /\ now \in Nat /\ r.from \in Nat
      /\ \A a \in Artifacts : upstream[a] \in Nat /\ x.refs[a] \in {upstream[a], 0}
  BY <1>3, <1>5 DEF Times, Run
<1>7. Past(x) BY <1>1, <1>5, <1>6 DEF Good, Past
<1>8. Accounted(x)
  <2>1. ASSUME NEW a \in Fit, upstream[a] \in 1..x.listed
        PROVE  Dealt(a) \/ x.refs[a] > 0 \/ a \in x.cut
    <3>1. a \in Artifacts /\ upstream[a] \in Nat /\ upstream[a] > 0
      BY <1>6, <2>1 DEF Fit
    <3>2. CASE a \in kept BY <1>5, <3>1, <3>2
    <3>3. CASE a \in Listed(r.from) \ kept BY <1>5, <3>3
    <3>4. CASE a \notin Listed(r.from)
      <4>1. upstream[a] \in 1..r.from BY <1>6, <3>1, <3>4 DEF Listed
      <4> QED BY <1>1, <2>1, <4>1 DEF Good, Past, Covered
    <3> QED BY <3>2, <3>3, <3>4
  <2> QED BY <1>5, <2>1 DEF Accounted
<1>9. Handled(x) BY <1>5 DEF Handled, Busy
<1>10. Good(x) BY <1>7, <1>8, <1>9 DEF Good
<1>11. Local /\ faults' \in 0..MaxFaults BY DEF List, SyncInv, TypeOK
<1> QED BY <1>2, <1>4, <1>10, <1>11, Untouched

LEMMA StepListFails ==
  ASSUME SyncInv, NEW c \in Callers, ListFails(c)
  PROVE  SyncInv'
<1>1. PICK r \in Run : r = sync[c] /\ Good(r) BY DEF SyncInv, TypeOK
<1>2. PICK x : x = [r EXCEPT !.pc = "advance", !.status = "failed"] OBVIOUS
<1>3. x \in Run BY <1>2 DEF Run
<1>4. /\ x.pc = "advance" /\ x.status = "failed" /\ x.from = r.from /\ x.to = r.to
      /\ x.listed = r.listed /\ x.refs = r.refs
  BY <1>2 DEF Run
<1>5. Good(x)
  <2>1. Past(x) BY <1>1, <1>4 DEF Good, Past
  <2>2. Handled(x) /\ Accounted(x) BY <1>4 DEF Handled, Accounted, Counts, Busy, Listing
  <2> QED BY <2>1, <2>2 DEF Good
<1>6. sync' = [sync EXCEPT ![c] = x] /\ Local BY <1>1, <1>2 DEF ListFails
<1>7. faults' \in 0..MaxFaults BY FaultTyped DEF ListFails, SyncInv
<1> QED BY <1>3, <1>5, <1>6, <1>7, Untouched

LEMMA StepAbort ==
  ASSUME SyncInv, NEW c \in Callers, Abort(c)
  PROVE  SyncInv'
<1>1. Rest \in Run /\ Good(Rest) BY RestGood DEF SyncInv
<1>2. sync' = [sync EXCEPT ![c] = Rest] /\ Local BY DEF Abort
<1>3. faults' \in 0..MaxFaults BY FaultTyped DEF Abort, SyncInv
<1>4. PICK x : x = Rest OBVIOUS
<1> QED BY <1>1, <1>2, <1>3, <1>4, Untouched

-----------------------------------------------------------------------------
(* One artifact. *)

LEMMA StepSkip ==
  ASSUME SyncInv, NEW c \in Callers, NEW a \in Artifacts, Skip(c, a)
  PROVE  SyncInv'
<1>1. PICK r \in Run : r = sync[c] /\ Good(r) BY DEF SyncInv, TypeOK
<1>2. PICK y : y = [r EXCEPT !.refs[a] = 0, !.landed = TRUE] OBVIOUS
<1>3. 0 \in Times /\ [r.refs EXCEPT ![a] = 0] \in [Artifacts -> Times] BY DEF Times, Run
<1>4. y \in Run BY <1>2, <1>3 DEF Run
<1>5. /\ y.pc = r.pc /\ y.from = r.from /\ y.listed = r.listed /\ y.to = r.to
      /\ y.cut = r.cut /\ y.failed = r.failed /\ y.refs = [r.refs EXCEPT ![a] = 0]
  BY <1>2 DEF Run
<1>6. r.pc = "next" /\ r.refs[a] > 0 /\ Unchanged(c, a) BY <1>1 DEF Skip, At
<1>7. ASSUME a \in Fit, upstream[a] \in 1..r.listed PROVE Dealt(a)
  <2>1. row[a].hash > 0 /\ row[a].signature = r.refs[a]
    BY <1>1, <1>6 DEF Unchanged, Signature
  <2>2. /\ <<a, row[a].hash>> \in submitted /\ row[a].signature <= row[a].hash
        /\ row[a].hash <= upstream[a]
    BY <2>1 DEF SyncInv, Rows
  <2>3. upstream[a] <= r.listed BY <1>7 DEF Run, Times
  <2>4. r.refs[a] = upstream[a] BY <1>1, <1>6, <2>3 DEF Good, Past
  <2>5. row[a].hash \in Nat /\ upstream[a] \in Nat BY DEF SyncInv, TypeOK, Row, Times
  <2>6. row[a].hash = upstream[a] BY <2>1, <2>2, <2>4, <2>5
  <2> QED BY <2>2, <2>6 DEF Dealt
<1>8. TypeOK /\ r.pc \in Listing BY <1>6 DEF SyncInv, Listing
<1>9. Good(y) BY <1>1, <1>4, <1>5, <1>6, <1>7, <1>8, CrossedOff
<1>10. sync' = [sync EXCEPT ![c] = y] /\ Local /\ faults' \in 0..MaxFaults
  BY <1>1, <1>2 DEF Skip, SyncInv, TypeOK
<1> QED BY <1>4, <1>9, <1>10, Untouched

LEMMA StepTake ==
  ASSUME SyncInv, NEW c \in Callers, NEW a \in Artifacts, Take(c, a)
  PROVE  SyncInv'
<1>1. PICK r \in Run : r = sync[c] /\ Good(r) BY DEF SyncInv, TypeOK
<1>2. PICK x : x = [r EXCEPT !.pc = "fetch", !.item = a, !.known = row[a].hash] OBVIOUS
<1>3. row[a].hash \in Times BY DEF SyncInv, TypeOK, Row
<1>4. x \in Run BY <1>2, <1>3 DEF Run
<1>5. /\ x.pc = "fetch" /\ x.item = a /\ x.known = row[a].hash /\ x.from = r.from
      /\ x.to = r.to /\ x.listed = r.listed /\ x.refs = r.refs /\ x.cut = r.cut
      /\ x.failed = r.failed
  BY <1>2 DEF Run
<1>6. r.pc = "next" /\ r.refs[a] > 0 BY <1>1 DEF Take, At
<1>7. Past(x) BY <1>1, <1>5 DEF Good, Past
<1>8. Handled(x) BY <1>5, <1>6 DEF Handled, Busy, SyncInv, Rows
<1>9. Accounted(x) BY <1>1, <1>5, <1>6 DEF Good, Accounted, Counts, Listing
<1>10. sync' = [sync EXCEPT ![c] = x] /\ Local /\ faults' \in 0..MaxFaults
  BY <1>1, <1>2 DEF Take, SyncInv, TypeOK
<1>11. Good(x) BY <1>7, <1>8, <1>9 DEF Good
<1> QED BY <1>4, <1>10, <1>11, Untouched

(* A run is at an artifact of its list. *)
LEMMA AtItem ==
  ASSUME SyncInv, NEW c \in Callers, sync[c].pc \in Busy
  PROVE  \E r \in Run : /\ r = sync[c] /\ Good(r) /\ r.pc \in Busy /\ r.pc \in Listing
                        /\ r.item \in Artifacts /\ r.refs[r.item] > 0
BY DEF SyncInv, TypeOK, Good, Handled, Listing

(* The artifact at hand is over, successfully ... *)
LEMMA Landed ==
  ASSUME SyncInv, NEW r \in Run, Good(r), r.pc \in Busy, r.item \in Artifacts,
         r.item \in Fit /\ upstream[r.item] \in 1..r.listed => Dealt(r.item)
  PROVE  [Onward(r) EXCEPT !.landed = TRUE] \in Run /\ Good([Onward(r) EXCEPT !.landed = TRUE])
<1>1. PICK y : y = [Onward(r) EXCEPT !.landed = TRUE] OBVIOUS
<1>2. /\ y \in Run /\ y.pc = "next" /\ y.from = r.from /\ y.listed = r.listed
      /\ y.to = r.to /\ y.cut = r.cut /\ y.refs = [r.refs EXCEPT ![r.item] = 0]
      /\ y.failed = r.failed
  BY <1>1, OnwardShape
<1>3. TypeOK /\ r.pc \in Listing BY DEF SyncInv, Listing
<1>4. Good(y) BY <1>2, <1>3, CrossedOff
<1> QED BY <1>1, <1>2, <1>4

(* ... or not. *)
LEMMA StepGiveUp ==
  ASSUME SyncInv, NEW c \in Callers, sync[c].pc \in Busy, GiveUp(c), Local,
         faults' \in 0..MaxFaults
  PROVE  SyncInv'
<1>1. PICK r \in Run : /\ r = sync[c] /\ Good(r) /\ r.pc \in Busy /\ r.pc \in Listing
                       /\ r.item \in Artifacts /\ r.refs[r.item] > 0
  BY AtItem
<1>2. PICK F \in SUBSET Artifacts : F = r.failed \cup {r.item} BY <1>1 DEF Run
<1>3. PICK y : y = [Onward(r) EXCEPT !.failed = F] OBVIOUS
<1>4. /\ y \in Run /\ y.pc = "next" /\ y.from = r.from /\ y.listed = r.listed
      /\ y.to = r.to /\ y.cut = r.cut /\ y.refs = [r.refs EXCEPT ![r.item] = 0]
      /\ y.failed = F
  <2>1. /\ [Onward(r) EXCEPT !.failed = F] \in Run
        /\ [Onward(r) EXCEPT !.failed = F].failed = F
        /\ \A z \in {[Onward(r) EXCEPT !.landed = TRUE], [Onward(r) EXCEPT !.failed = F]} :
             /\ z.pc = "next" /\ z.from = r.from /\ z.listed = r.listed /\ z.to = r.to
             /\ z.cut = r.cut /\ z.refs = [r.refs EXCEPT ![r.item] = 0]
    BY ZenonT(60), <1>1, OnwardShape
  <2> QED BY <1>3, <2>1, Zenon
<1>5. TypeOK BY DEF SyncInv
<1>6. Good(y) BY <1>1, <1>2, <1>4, <1>5, CrossedOff
<1>7. sync' = [sync EXCEPT ![c] = y]
  <2>1. sync' = [sync EXCEPT ![c] =
                   [Onward(sync[c]) EXCEPT !.failed = sync[c].failed \cup {sync[c].item}]]
    BY Zenon DEF GiveUp, Item
  <2> QED BY <1>1, <1>2, <1>3, <2>1, Zenon
<1> QED BY <1>4, <1>6, <1>7, Untouched

LEMMA StepArtifactFails ==
  ASSUME SyncInv, NEW c \in Callers, ArtifactFails(c) \/ WriteConflicts(c)
  PROVE  SyncInv'
<1>1. sync[c].pc \in Busy /\ GiveUp(c) /\ Local
  BY DEF ArtifactFails, WriteConflicts, Busy, At
<1>2. faults' \in 0..MaxFaults
  BY FaultTyped DEF ArtifactFails, WriteConflicts, SyncInv, TypeOK
<1> QED BY <1>1, <1>2, StepGiveUp

(* The bytes are the recorded ones, or they are on their way. *)
LEMMA StepFetch ==
  ASSUME SyncInv, NEW c \in Callers, Fetch(c)
  PROVE  SyncInv'
<1>1. sync[c].pc \in Busy /\ sync[c].pc = "fetch" BY DEF Fetch, At, Busy
<1>2. PICK r \in Run : /\ r = sync[c] /\ Good(r) /\ r.pc \in Busy /\ r.pc \in Listing
                       /\ r.item \in Artifacts /\ r.refs[r.item] > 0
  BY <1>1, AtItem
<1>3. Local /\ faults' \in 0..MaxFaults BY DEF Fetch, SyncInv, TypeOK
<1>4. upstream[r.item] \in Times /\ upstream[r.item] \in Nat /\ r.refs[r.item] \in Nat
  BY <1>2 DEF SyncInv, TypeOK, Run, Times
<1>5. r.refs[r.item] <= upstream[r.item] BY <1>2 DEF Good, Past
<1>6. CASE upstream[r.item] = r.known
  <2>1. sync' = [sync EXCEPT ![c] = [Onward(r) EXCEPT !.landed = TRUE]]
    BY <1>2, <1>6, Zenon DEF Fetch, Item
  <2>2. Dealt(r.item)
    BY <1>1, <1>2, <1>4, <1>5, <1>6 DEF Dealt, Good, Handled
  <2>3. PICK y : y = [Onward(r) EXCEPT !.landed = TRUE] OBVIOUS
  <2>4. y \in Run /\ Good(y) BY <1>2, <2>2, <2>3, Landed
  <2> QED BY <1>3, <2>1, <2>3, <2>4, Untouched
<1>7. CASE upstream[r.item] # r.known
  <2>1. PICK x : x = [r EXCEPT !.pc = "submit", !.bytes = upstream[r.item]] OBVIOUS
  <2>2. sync' = [sync EXCEPT ![c] = x] BY <1>2, <1>7, <2>1, Zenon DEF Fetch, Item
  <2>3. /\ x \in Run /\ x.pc = "submit" /\ x.bytes = upstream[r.item] /\ x.item = r.item
        /\ x.from = r.from /\ x.to = r.to /\ x.listed = r.listed /\ x.refs = r.refs
        /\ x.cut = r.cut /\ x.failed = r.failed
    BY <1>4, <2>1 DEF Run
  <2>4. Past(x) BY <1>2, <2>3 DEF Good, Past
  <2>5. Handled(x) BY <1>2, <1>4, <1>5, <2>3 DEF Handled, Busy
  <2>6. Accounted(x) BY <1>2, <2>3 DEF Good, Accounted, Counts, Listing, Busy
  <2>7. Good(x) BY <2>4, <2>5, <2>6 DEF Good
  <2> QED BY <1>3, <2>2, <2>3, <2>7, Untouched
<1> QED BY <1>6, <1>7

LEMMA StepRefuse ==
  ASSUME SyncInv, NEW c \in Callers, Refuse(c)
  PROVE  SyncInv'
<1>1. sync[c].pc \in Busy BY DEF Refuse, At, Busy
<1>2. PICK r \in Run : /\ r = sync[c] /\ Good(r) /\ r.pc \in Busy /\ r.pc \in Listing
                       /\ r.item \in Artifacts /\ r.refs[r.item] > 0
  BY <1>1, AtItem
<1>3. PICK y : y = [Onward(r) EXCEPT !.landed = TRUE] OBVIOUS
<1>4. r.item \notin Fit BY <1>2 DEF Refuse, Item, Fit
<1>5. y \in Run /\ Good(y) BY <1>2, <1>3, <1>4, Landed
<1>6. sync' = [sync EXCEPT ![c] = y] BY <1>2, <1>3, Zenon DEF Refuse
<1>7. Local /\ faults' \in 0..MaxFaults BY DEF Refuse, SyncInv, TypeOK
<1> QED BY <1>5, <1>6, <1>7, Untouched

LEMMA StepLook ==
  ASSUME SyncInv, NEW c \in Callers, Look(c)
  PROVE  SyncInv'
<1>1. PICK r \in Run : r = sync[c] /\ Good(r) /\ r.pc = "look" BY DEF SyncInv, TypeOK, Look, At
<1>2. PICK found \in BOOLEAN : found = (row[Item(c)].hash > 0)
  <2>1. r.item \in Artifacts /\ Item(c) = r.item BY <1>1 DEF Good, Handled, Busy, Item
  <2>2. row[Item(c)].hash \in Nat BY <2>1 DEF SyncInv, TypeOK, Row, Times
  <2>3. (row[Item(c)].hash > 0) \in BOOLEAN BY <2>2
  <2> QED BY <2>3, Zenon
<1>3. PICK x : x = [r EXCEPT !.pc = "write", !.found = found] OBVIOUS
<1>4. /\ x \in Run /\ x.pc = "write" /\ x.bytes = r.bytes /\ x.item = r.item
      /\ x.from = r.from /\ x.to = r.to /\ x.listed = r.listed /\ x.refs = r.refs
      /\ x.cut = r.cut /\ x.failed = r.failed
  BY <1>3 DEF Run
<1>5. Past(x) BY <1>1, <1>4 DEF Good, Past
<1>6. Handled(x) BY <1>1, <1>4 DEF Good, Handled, Busy
<1>7. Accounted(x) BY <1>1, <1>4 DEF Good, Accounted, Counts, Listing, Busy
<1>8. Good(x) BY <1>5, <1>6, <1>7 DEF Good
<1>9. sync' = [sync EXCEPT ![c] = x]
  <2>1. sync' = [sync EXCEPT ![c].pc = "write", ![c].found = (row[Item(c)].hash > 0)]
    BY Zenon DEF Look
  <2>2. sync \in [Callers -> Run] BY DEF SyncInv, TypeOK
  <2> QED BY <1>1, <1>2, <1>3, <2>1, <2>2
<1>10. Local /\ faults' \in 0..MaxFaults BY DEF Look, SyncInv, TypeOK
<1> QED BY <1>4, <1>8, <1>9, <1>10, Untouched

LEMMA StepClose ==
  ASSUME SyncInv, NEW c \in Callers, Close(c)
  PROVE  SyncInv'
<1>1. PICK r \in Run : r = sync[c] /\ Good(r) /\ r.pc = "next" /\ r.refs = Nothing
  BY DEF SyncInv, TypeOK, Close, At
<1>2. PICK v \in {"succeeded", "partial", "failed"} : v = Verdict(r) BY DEF Verdict
<1>3. PICK x : x = [r EXCEPT !.pc = "advance", !.to = now, !.status = v] OBVIOUS
<1>4. now \in Times /\ now \in Nat BY DEF SyncInv, TypeOK, Times
<1>5. /\ x \in Run /\ x.pc = "advance" /\ x.to = now
      /\ x.from = r.from /\ x.listed = r.listed /\ x.refs = r.refs
      /\ x.cut = r.cut /\ x.failed = r.failed
  BY <1>3, <1>4 DEF Run
<1>6. Past(x) BY <1>1, <1>4, <1>5 DEF Good, Past
<1>7. Handled(x) BY <1>5 DEF Handled, Busy
<1>8. Accounted(x) BY <1>1, <1>5 DEF Good, Accounted, Counts, Listing
<1>9. Good(x) BY <1>6, <1>7, <1>8 DEF Good
<1>10. sync' = [sync EXCEPT ![c] = x] BY <1>1, <1>2, <1>3, Zenon DEF Close
<1>11. Local /\ faults' \in 0..MaxFaults BY DEF Close, SyncInv, TypeOK
<1> QED BY <1>5, <1>9, <1>10, <1>11, Untouched

-----------------------------------------------------------------------------
(* The steps that write to the database. *)

LEMMA StepSubmit ==
  ASSUME SyncInv, NEW c \in Callers, Submit(c)
  PROVE  SyncInv'
<1>1. sync[c].pc \in Busy /\ sync[c].pc = "submit" BY DEF Submit, At, Busy
<1>2. PICK r \in Run : /\ r = sync[c] /\ Good(r) /\ r.pc \in Busy /\ r.pc \in Listing
                       /\ r.item \in Artifacts /\ r.refs[r.item] > 0
  BY <1>1, AtItem
<1>3. PICK x : x = [r EXCEPT !.pc = "look"] OBVIOUS
<1>4. /\ x \in Run /\ x.pc = "look" /\ x.bytes = r.bytes /\ x.item = r.item
      /\ x.from = r.from /\ x.to = r.to /\ x.listed = r.listed /\ x.refs = r.refs
      /\ x.cut = r.cut /\ x.failed = r.failed
  BY <1>3 DEF Run
<1>5. /\ submitted' = submitted \cup {<<r.item, r.bytes>>}
      /\ sync' = [sync EXCEPT ![c] = x]
      /\ UNCHANGED <<setting, now, upstream, cursor, row, passed, faults>>
  BY <1>2, <1>3 DEF Submit, Item
<1>6. r.bytes \in Times BY DEF Run
<1>7. TypeOK' BY <1>2, <1>4, <1>5, <1>6 DEF SyncInv, TypeOK
<1>8. Clock' /\ Rows' BY <1>5 DEF SyncInv, Clock, Rows
<1>9. Covered(cursor)' BY <1>5 DEF SyncInv, Covered, Dealt, Fit
<1>10. Good(r)' BY <1>2, <1>5, StillGood
<1>11. Good(x)'
  <2>1. Past(x)' BY <1>4, <1>5, <1>10 DEF Good, Past, Covered, Dealt, Fit
  <2>2. Handled(x)' BY <1>1, <1>2, <1>4, <1>5, <1>10 DEF Good, Handled, Busy
  <2>3. Accounted(x)'
    BY <1>2, <1>4, <1>5, <1>10 DEF Good, Accounted, Counts, Listing, Busy, Dealt, Fit
  <2> QED BY <2>1, <2>2, <2>3 DEF Good
<1>12. ASSUME NEW d \in Callers PROVE Good(sync[d])'
  <2>1. sync \in [Callers -> Run] BY DEF SyncInv, TypeOK
  <2>2. CASE d = c BY <1>5, <1>11, <2>1, <2>2
  <2>3. CASE d # c
    <3>1. PICK y : y = sync[d] OBVIOUS
    <3>2. Good(y)' BY <1>5, <3>1, StillGood DEF SyncInv
    <3> QED BY <1>5, <2>1, <2>3, <3>1, <3>2
  <2> QED BY <2>2, <2>3
<1> QED BY <1>7, <1>8, <1>9, <1>12 DEF SyncInv

LEMMA StepWrite ==
  ASSUME SyncInv, NEW c \in Callers, Write(c)
  PROVE  SyncInv'
<1>1. sync[c].pc \in Busy /\ sync[c].pc = "write" BY DEF Write, At, Busy
<1>2. PICK r \in Run : /\ r = sync[c] /\ Good(r) /\ r.pc \in Busy /\ r.pc \in Listing
                       /\ r.item \in Artifacts /\ r.refs[r.item] > 0
  BY <1>1, AtItem
<1>3. PICK y : y = [Onward(r) EXCEPT !.landed = TRUE] OBVIOUS
<1>4. PICK s : s = IF r.item \in Signed THEN r.refs[r.item] ELSE 0 OBVIOUS
<1>5. /\ row' = [row EXCEPT ![r.item] = [signature |-> s, hash |-> r.bytes]]
      /\ sync' = [sync EXCEPT ![c] = y]
      /\ UNCHANGED <<setting, now, upstream, cursor, submitted, passed, faults>>
  BY <1>2, <1>3, <1>4, Zenon DEF Write, Item, Signature
<1>6. /\ <<r.item, r.bytes>> \in submitted
      /\ r.refs[r.item] <= r.bytes /\ r.bytes <= upstream[r.item]
  BY <1>1, <1>2 DEF Good, Handled
<1>7. /\ r.refs[r.item] \in Times /\ r.bytes \in Times /\ 0 \in Times
      /\ upstream[r.item] \in Times
  BY <1>2 DEF Run, Times, SyncInv, TypeOK
<1>8. s \in Times /\ s <= r.bytes BY <1>4, <1>6, <1>7 DEF Times
<1>9. ASSUME r.item \in Fit, upstream[r.item] \in 1..r.listed PROVE Dealt(r.item)
  <2>1. upstream[r.item] <= r.listed BY <1>9 DEF Run, Times
  <2>2. r.refs[r.item] = upstream[r.item] BY <1>2, <2>1 DEF Good, Past
  <2>3. r.bytes = upstream[r.item] BY <1>6, <1>7, <2>2 DEF Times
  <2> QED BY <1>6, <2>3 DEF Dealt
<1>10. y \in Run /\ Good(y) BY <1>2, <1>3, <1>9, Landed
<1>11. row \in [Artifacts -> Row] BY DEF SyncInv, TypeOK
<1>12. TypeOK'
  <2>1. row' \in [Artifacts -> Row] BY <1>5, <1>7, <1>8, <1>11 DEF Row
  <2> QED BY <1>5, <1>10, <2>1 DEF SyncInv, TypeOK
<1>13. Rows' BY <1>5, <1>6, <1>8, <1>11 DEF SyncInv, Rows, Row
<1>14. Clock' /\ Covered(cursor)' BY <1>5 DEF SyncInv, Clock, Covered, Dealt, Fit
<1>15. ASSUME NEW d \in Callers PROVE Good(sync[d])'
  <2>1. sync \in [Callers -> Run] BY DEF SyncInv, TypeOK
  <2>2. PICK z : z = sync'[d] OBVIOUS
  <2>3. Good(z) BY <1>5, <1>10, <2>1, <2>2 DEF SyncInv
  <2>4. Good(z)' BY <1>5, <2>3, StillGood
  <2> QED BY <2>2, <2>4
<1> QED BY <1>12, <1>13, <1>14, <1>15 DEF SyncInv

LEMMA StepAdvance ==
  ASSUME SyncInv, NEW c \in Callers, Advance(c)
  PROVE  SyncInv'
<1>1. PICK r \in Run : r = sync[c] /\ Good(r) /\ r.pc = "advance"
  BY DEF SyncInv, TypeOK, Advance, At
<1>2. /\ sync' = [sync EXCEPT ![c] = Rest]
      /\ UNCHANGED <<setting, now, upstream, row, submitted, faults>>
  BY DEF Advance
<1>3. Rest \in Run /\ Good(Rest) BY RestGood DEF SyncInv
<1>4. passed \subseteq passed' BY DEF Advance
<1>5. ASSUME NEW d \in Callers PROVE Good(sync[d])'
  <2>1. sync \in [Callers -> Run] BY DEF SyncInv, TypeOK
  <2>2. PICK z : z = sync'[d] OBVIOUS
  <2>3. Good(z) BY <1>2, <1>3, <2>1, <2>2 DEF SyncInv
  <2>4. Good(z)' BY <1>2, <1>4, <2>3, StillGood
  <2> QED BY <2>2, <2>4
<1>6. CASE r.status \notin {"succeeded", "partial"}
  <2>1. UNCHANGED <<cursor, passed>> BY <1>1, <1>6 DEF Advance
  <2>2. TypeOK' BY <1>2, <1>3, <2>1 DEF SyncInv, TypeOK
  <2>3. Clock' /\ Rows' /\ Covered(cursor)'
    BY <1>2, <2>1 DEF SyncInv, Clock, Rows, Covered, Dealt, Fit
  <2> QED BY <1>5, <2>2, <2>3 DEF SyncInv
<1>7. CASE r.status \in {"succeeded", "partial"}
  <2>1. cursor' = r.to /\ passed' = passed \cup Excuses(r) BY <1>1, <1>7 DEF Advance
  <2>2. r.to \in Times /\ r.to <= now /\ r.listed \in Times BY <1>1 DEF Run, Good, Past
  <2>3. upstream \in [Artifacts -> Times] BY DEF SyncInv, TypeOK
  <2>4. Excuses(r) \subseteq Artifacts \X Times BY <2>3 DEF Excuses
  <2>5. TypeOK' BY <1>2, <1>3, <2>1, <2>2, <2>4 DEF SyncInv, TypeOK
  <2>6. Clock' /\ Rows' BY <1>2, <2>1, <2>2 DEF SyncInv, Clock, Rows
  <2>7. ASSUME NEW a \in Fit, upstream[a] \in 1..r.to
        PROVE  <<a, upstream[a]>> \in submitted \cup passed'
    <3>1. /\ a \in Artifacts /\ upstream[a] \in Nat /\ upstream[a] > 0 /\ upstream[a] <= r.to
          /\ r.listed \in Nat
      BY <2>2, <2>3, <2>7 DEF Fit, Times
    <3>2. CASE upstream[a] > r.listed BY <2>1, <3>1, <3>2 DEF Excuses
    <3>3. CASE a \in r.failed \cup r.cut BY <2>1, <3>1, <3>3 DEF Excuses
    <3>4. CASE ~(upstream[a] > r.listed) /\ a \notin r.failed \cup r.cut
      <4>1. upstream[a] \in 1..r.listed BY <3>1, <3>4
      <4>2. r.refs[a] = 0 /\ Counts(r)
        BY <1>1, <1>7, <3>1 DEF Good, Accounted, Nothing, Counts
      <4>3. Dealt(a) BY <1>1, <2>7, <3>4, <4>1, <4>2 DEF Good, Accounted
      <4> QED BY <1>4, <4>3 DEF Dealt
    <3> QED BY <3>2, <3>3, <3>4
  <2>8. Covered(cursor)' BY <1>2, <2>1, <2>7 DEF Covered, Dealt, Fit
  <2> QED BY <1>5, <2>5, <2>6, <2>8 DEF SyncInv
<1> QED BY <1>6, <1>7

LEMMA StepEdit ==
  ASSUME SyncInv, NEW a \in Artifacts, Edit(a)
  PROVE  SyncInv'
<1>1. /\ now \in Times /\ now' = now + 1 /\ now' \in Times
      /\ upstream \in [Artifacts -> Times] /\ upstream' = [upstream EXCEPT ![a] = now']
      /\ UNCHANGED <<setting, cursor, row, submitted, sync, passed, faults>>
  BY DEF Edit, SyncInv, TypeOK, Times
<1>2. TypeOK' BY <1>1 DEF SyncInv, TypeOK
<1>3. cursor \in Times /\ row \in [Artifacts -> Row] BY DEF SyncInv, TypeOK
<1>4. Clock' BY <1>1, <1>3 DEF SyncInv, Clock, Times
<1>5. ASSUME NEW b \in Artifacts
      PROVE  upstream[b] <= upstream'[b] /\ upstream[b] \in Nat /\ upstream'[b] \in Nat
  <2>1. upstream[b] \in Nat /\ now \in Nat /\ upstream[b] <= now
    BY <1>1 DEF SyncInv, Clock, Times
  <2>2. CASE b = a BY <1>1, <2>1, <2>2
  <2>3. CASE b # a BY <1>1, <2>1, <2>3
  <2> QED BY <2>2, <2>3
<1>6. Rows'
  <2>1. \A b \in Artifacts : row[b].hash \in Nat BY <1>3 DEF Row, Times
  <2> QED BY <1>1, <1>5, <2>1 DEF SyncInv, Rows
<1>7. Covered(cursor)'
  <2>1. PICK n \in Times : n = cursor BY <1>3
  <2>2. Covered(n)' BY <2>1, EditCovered DEF SyncInv, Clock
  <2> QED BY <1>1, <2>1, <2>2
<1>8. ASSUME NEW d \in Callers PROVE Good(sync[d])'
  <2>1. PICK x \in Run : x = sync[d] /\ Good(x) BY DEF SyncInv, TypeOK
  <2>2. Good(x)' BY <2>1, EditGood DEF SyncInv
  <2> QED BY <1>1, <2>1, <2>2
<1> QED BY <1>2, <1>4, <1>6, <1>7, <1>8 DEF SyncInv

-----------------------------------------------------------------------------
(* The theorems. *)

LEMMA InitInv == Init => SyncInv
<1> SUFFICES ASSUME Init PROVE SyncInv
  OBVIOUS
<1>1. 0 \in Times /\ 1 \in Times BY DEF Times
<1>2. NoRow \in Row /\ Nothing \in [Artifacts -> Times] BY <1>1 DEF NoRow, Row, Nothing
<1>3. Rest \in Run BY <1>1, <1>2 DEF Rest, Run
<1>4. TypeOK BY <1>1, <1>2, <1>3 DEF Init, TypeOK
<1>5. Clock /\ Rows BY DEF Init, Clock, Rows, NoRow
<1>6. Covered(cursor) BY DEF Init, Covered
<1>7. Good(Rest) BY <1>4, <1>5, RestGood
<1> QED BY <1>4, <1>5, <1>6, <1>7 DEF SyncInv, Init

LEMMA StepInv == SyncInv /\ [Next]_vars => SyncInv'
<1> SUFFICES ASSUME SyncInv, [Next]_vars PROVE SyncInv'
  OBVIOUS
<1>1. CASE UNCHANGED vars
  <2>1. TypeOK' BY <1>1 DEF vars, SyncInv, TypeOK
  <2>2. Clock' /\ Rows' /\ Covered(cursor)'
    BY <1>1 DEF vars, SyncInv, Clock, Rows, Covered, Dealt, Fit
  <2>3. ASSUME NEW d \in Callers PROVE Good(sync[d])'
    <3>1. PICK x : x = sync[d] OBVIOUS
    <3>2. Good(x)' BY <1>1, <3>1, StillGood DEF vars, SyncInv
    <3> QED BY <1>1, <3>1, <3>2 DEF vars
  <2> QED BY <2>1, <2>2, <2>3 DEF SyncInv
<1>2. CASE \E a \in Artifacts : Edit(a) BY <1>2, StepEdit
<1>3. ASSUME NEW c \in Callers, Step(c) PROVE SyncInv'
  BY <1>3, StepBegin, StepList, StepSkip, StepTake, StepFetch, StepSubmit, StepRefuse,
     StepLook, StepWrite, StepArtifactFails, StepClose, StepAdvance, Zenon DEF Step
<1>4. ASSUME NEW c \in Callers, Break(c) PROVE SyncInv'
  BY <1>4, StepListFails, StepArtifactFails, StepAbort DEF Break
<1> QED BY <1>1, <1>2, <1>3, <1>4 DEF Next

LEMMA AlwaysInv == Spec => []SyncInv
BY InitInv, StepInv, PTL DEF Spec

(* Every reachable state is well typed; no run knows an instant to come.     *)
THEOREM SyncTyping == Spec => []TypeOK
<1>1. SyncInv => TypeOK BY DEF SyncInv
<1> QED BY <1>1, AlwaysInv, PTL

(* A row that makes later runs skip an artifact stands for content that was  *)
(* ingested (_sync_artifact, record_ingested).                               *)
THEOREM RowsAreIngested == Spec => []RecordedIsIngested
<1>1. SyncInv => RecordedIsIngested BY DEF SyncInv, Rows, RecordedIsIngested
<1> QED BY <1>1, AlwaysInv, PTL

(* For any number of instances, artifacts, edits and faults, the cursor      *)
(* passes over content for the three named reasons only (sync_source).       *)
THEOREM NothingPassedOverSilently == Spec => []PassedOverForAReason
<1>1. SyncInv => PassedOverForAReason
  BY DEF SyncInv, PassedOverForAReason, Covered, Dealt, Fit
<1> QED BY <1>1, AlwaysInv, PTL

=============================================================================
