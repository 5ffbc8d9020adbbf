-------------------------- MODULE BlobStoreProofs --------------------------
(***************************************************************************)
(* Theorems about BlobStore, for any number of callers, keys, attempts,    *)
(* versions and late requests: type correctness, answers that were true    *)
(* during the call, and a retention check that the delete after it keeps.  *)
(***************************************************************************)
EXTENDS BlobStore, FiniteSetTheorems, TLAPS

-----------------------------------------------------------------------------
(* The invariant.                                                          *)

\* What a request that its client gave up may be.
LateFits ==
    /\ IsFiniteSet(late)
    /\ \A w \in late : /\ w.what \in {"PUT", "COPY", "DELETE"}
                       /\ w.key \in Keys /\ w.target \in Keys /\ w.body \in Bodies

\* Versions are handed out in order.
Versions == /\ \A k \in Keys : object[k].v <= made
            /\ \A p \in Procs : seen[p] <= made

\* The answer k of an attempt is on its way to Store.run's caller, or known to it.
Told(p, k) == (step[p] = "replied" /\ reply[p] = k) \/ last[p] = k

\* The objects the key of p's call has held.
There(p) == held[p] \ {Absent}

Shape(p) ==
    /\ stage[p] = "free" <=> phase[p] = "idle"
    /\ stage[p] # "free" => req[p] \in Requests
    /\ stage[p] = "free" => /\ tries[p] = 0 /\ last[p] = "none"
                            /\ seen[p] = 0 /\ got[p] = Absent /\ effect[p] = "none"
    /\ phase[p] = "calling" <=> step[p] # "none"
    /\ phase[p] = "calling" => tries[p] > 0
    /\ stage[p] = "check" => req[p].op = "delete" /\ step[p] # "second"
    /\ step[p] = "second" =>
          req[p].op \in {"put", "get"} \/ (req[p].op = "delete" /\ req[p].strict)
    /\ last[p] \in {OK, "not_found"} => phase[p] = "ready" /\ tries[p] > 0

HeldNow(p) == stage[p] # "free" => object[req[p].key] \in held[p]

GetFits(p) == stage[p] = "run" /\ req[p].op = "get" =>
    (step[p] = "second" \/ Told(p, OK) => got[p] \in There(p))

\* The ObjectInfo of a Get or a Put, if it has one.
InfoFits(p) == stage[p] = "run" /\ req[p].op \in {"get", "put"} =>
    seen[p] \in {o.v : o \in There(p)} \cup {0}

HeadFits(p) == stage[p] = "run" /\ req[p].op = "head" /\ Told(p, OK) =>
    seen[p] \in {o.v : o \in There(p)}

GoneFits(p) == stage[p] # "free" =>
    /\ Told(p, "not_found") => Absent \in held[p]
    /\ stage[p] = "run" /\ req[p].op = "delete" /\ Told(p, OK) => Absent \in held[p]

StrictFits(p) == stage[p] # "free" /\ req[p].op = "delete" /\ req[p].strict =>
    (stage[p] = "run" \/ Told(p, OK) => There(p) # {})

CopyFits(p) == stage[p] = "run" /\ req[p].op = "copy" /\ Told(p, OK) =>
    effect[p] \in {o.body : o \in There(p)}

PutFits(p) == stage[p] = "run" /\ req[p].op = "put" =>
    (step[p] = "second" \/ Told(p, OK) => effect[p] \in {o.body : o \in There(p)})

\* The first attempt of a Put finds all of its reader.
WholeFits(p) ==
    stage[p] = "run" /\ req[p].op = "put" =>
        /\ tries[p] = 0 \/ (tries[p] = 1 /\ step[p] \in {"entry", "first"}) =>
              rest[p] = req[p].body
        /\ tries[p] = 1 /\ (step[p] = "second" \/ Told(p, OK)) => effect[p] = req[p].body

CheckFits(p) ==
    /\ stage[p] = "check" /\ seen[p] # 0 => Told(p, OK)
    /\ stage[p] = "run" /\ req[p].op = "delete" /\ Retention => seen[p] \notin young

Local(p) == /\ Shape(p) /\ HeldNow(p) /\ GetFits(p) /\ InfoFits(p) /\ HeadFits(p)
            /\ GoneFits(p) /\ StrictFits(p) /\ CopyFits(p) /\ PutFits(p) /\ WholeFits(p)
            /\ CheckFits(p)

Inv == TypeOK /\ LateFits /\ Versions /\ \A p \in Procs : Local(p)
-----------------------------------------------------------------------------
(* What the others see of a step.                                          *)

Private(q) == /\ stage'[q] = stage[q] /\ phase'[q] = phase[q] /\ tries'[q] = tries[q]
              /\ last'[q] = last[q] /\ req'[q] = req[q] /\ step'[q] = step[q]
              /\ reply'[q] = reply[q] /\ got'[q] = got[q] /\ seen'[q] = seen[q]
              /\ effect'[q] = effect[q] /\ rest'[q] = rest[q]

\* The history of q's call follows the object store.
Watched(q) == stage[q] # "free" =>
    held[q] \subseteq held'[q] /\ object'[req[q].key] \in held'[q]

\* Young objects are new.
Renewed == \A v \in young' : v \in young \/ v > made

LEMMA Numbers ==
    /\ MaxVersions \in Nat /\ MaxAttempts \in Nat /\ MaxAttempts > 0 /\ MaxLate \in Nat
    /\ Absent \in Objects /\ Absent.v = 0
    /\ \A o \in Objects : o # Absent => o.v \in 1..MaxVersions /\ o.body \in Bodies
    /\ \A o \in Objects : o.v \in 0..MaxVersions
<1>1. MaxVersions \in Nat /\ MaxAttempts \in Nat /\ MaxAttempts > 0 /\ MaxLate \in Nat
  BY BlobStoreAssumption
<1>2. Absent \in Objects /\ Absent.v = 0
  BY DEF Objects, Absent
<1>3. \A o \in Objects : o # Absent => o.v \in 1..MaxVersions /\ o.body \in Bodies
  BY DEF Objects
<1>4. \A o \in Objects : o.v \in 0..MaxVersions
  BY <1>1, <1>2, <1>3
<1> QED BY <1>1, <1>2, <1>3, <1>4

LEMMA LocalKept ==
    ASSUME Inv, NEW q \in Procs, Private(q), Watched(q), Renewed
    PROVE  Local(q)'
<1>1. Local(q)
  BY DEF Inv
<1>2. Shape(q)'
  BY <1>1 DEF Local, Shape, Private
<1>3. HeldNow(q)'
  BY DEF HeldNow, Private, Watched
<1>4. stage[q] # "free" => There(q) \subseteq There(q)'
  BY DEF Watched, There
<1>5. \A k : Told(q, k)' = Told(q, k)
  BY DEF Told, Private
<1>6. GetFits(q)'
  BY <1>1, <1>4, <1>5 DEF Local, GetFits, Private
<1>6a. InfoFits(q)'
  BY <1>1, <1>4 DEF Local, InfoFits, Private
<1>7. HeadFits(q)'
  BY <1>1, <1>4, <1>5 DEF Local, HeadFits, Private
<1>8. GoneFits(q)'
  BY <1>1, <1>5 DEF Local, GoneFits, Private, Watched
<1>9. StrictFits(q)'
  BY <1>1, <1>4, <1>5 DEF Local, StrictFits, Private
<1>10. CopyFits(q)'
  BY <1>1, <1>4, <1>5 DEF Local, CopyFits, Private
<1>11. PutFits(q)'
  BY <1>1, <1>4, <1>5 DEF Local, PutFits, Private
<1>11a. WholeFits(q)'
  BY <1>1, <1>5 DEF Local, WholeFits, Private
<1>12. CheckFits(q)'
  <2>1. seen[q] \in Nat /\ made \in Nat /\ seen[q] <= made
    BY Numbers DEF Inv, TypeOK, Versions
  <2> QED BY <1>1, <1>5, <2>1 DEF Local, CheckFits, Private, Renewed
<1> QED BY <1>2, <1>3, <1>6, <1>6a, <1>7, <1>8, <1>9, <1>10, <1>11, <1>11a, <1>12 DEF Local

\* The object store does not move, nor do the histories.
LEMMA StillKept ==
    ASSUME Inv, NEW q \in Procs, Private(q), UNCHANGED <<object, held, young, made>>
    PROVE  Local(q)'
<1>1. Watched(q)
  BY DEF Watched, Inv, Local, HeldNow
<1>2. Renewed
  BY DEF Renewed
<1> QED BY <1>1, <1>2, LocalKept

-----------------------------------------------------------------------------
(* The object store.                                                       *)

RequestFits(w) ==
    /\ w.what \in {"PUT", "COPY", "DELETE", "GET", "HEAD"}
    /\ w.key \in Keys /\ w.target \in Keys /\ w.body \in Bodies

StoreFits ==
    /\ object' \in [Keys -> Objects] /\ young' \subseteq 1..made' /\ made' \in 0..MaxVersions
    /\ made <= made' /\ Renewed
    /\ \A k \in Keys : object'[k].v <= made'

LEMMA StoresFits ==
    ASSUME Inv, NEW key \in Keys, NEW body \in Bodies, Stores(key, body)
    PROVE  StoreFits
<1>1. /\ made \in 0..MaxVersions /\ made < MaxVersions /\ made' = made + 1
      /\ young' = young \cup {made + 1} /\ young \subseteq 1..made
      /\ object' = [object EXCEPT ![key] = [v |-> made + 1, body |-> body]]
      /\ object \in [Keys -> Objects] /\ MaxVersions \in Nat
  BY Numbers DEF Stores, Inv, TypeOK
<1>2. made + 1 \in 1..MaxVersions
  BY <1>1
<1>3. [v |-> made + 1, body |-> body] \in Objects
  BY <1>2 DEF Objects
<1>4. object' \in [Keys -> Objects]
  BY <1>1, <1>3
<1>5. made' \in 0..MaxVersions /\ made <= made' /\ young' \subseteq 1..made' /\ Renewed
  BY <1>1 DEF Renewed
<1>6. ASSUME NEW k \in Keys PROVE object'[k].v <= made'
  <2>1. object[k].v <= made /\ object[k].v \in 0..MaxVersions
    BY Numbers DEF Inv, TypeOK, Versions
  <2>2. object'[k].v = IF k = key THEN made + 1 ELSE object[k].v
    BY <1>1
  <2> QED BY <1>1, <2>1, <2>2
<1> QED BY <1>4, <1>5, <1>6 DEF StoreFits

LEMMA AppliedFits ==
    ASSUME Inv, NEW w, RequestFits(w), Applied(w) \/ UNCHANGED <<object, young, made>>
    PROVE  StoreFits
<1>1. /\ made \in 0..MaxVersions /\ young \subseteq 1..made /\ MaxVersions \in Nat
      /\ object \in [Keys -> Objects] /\ \A k \in Keys : object[k].v <= made
  BY Numbers DEF Inv, TypeOK, Versions
<1>2. CASE w.what = "PUT" /\ Stores(w.key, w.body)
  BY <1>2, StoresFits DEF RequestFits
<1>3. CASE object[w.key] # Absent /\ Stores(w.target, object[w.key].body)
  <2>1. w.key \in Keys /\ w.target \in Keys
    BY DEF RequestFits
  <2>2. object[w.key].body \in Bodies
    BY <1>1, <1>3, <2>1, Numbers
  <2> QED BY <1>3, <2>1, <2>2, StoresFits
<1>4. CASE object' = [object EXCEPT ![w.key] = Absent] /\ UNCHANGED <<young, made>>
  <2>1. object' \in [Keys -> Objects]
    BY <1>1, <1>4, Numbers
  <2>2. \A k \in Keys : object'[k].v <= made'
    BY <1>1, <1>4, Numbers
  <2> QED BY <1>1, <1>4, <2>1, <2>2 DEF StoreFits, Renewed
<1>5. CASE UNCHANGED <<object, young, made>>
  BY <1>1, <1>5 DEF StoreFits, Renewed
<1> QED BY <1>2, <1>3, <1>4, <1>5 DEF Applied

LEMMA WireFits ==
    ASSUME Inv, NEW p \in Procs, Sending(p)
    PROVE  /\ RequestFits(Request(p)) /\ req[p] \in Requests
           /\ stage[p] \in {"check", "run"} /\ phase[p] = "calling"
           /\ Request(p).what = Wire(p) /\ Request(p).key = req[p].key
           /\ Request(p).target = req[p].target /\ Request(p).body = rest[p]
           /\ req[p].op \in {"put", "get", "head", "delete", "copy"}
           /\ req[p].key \in Keys /\ last[p] \notin {OK, "not_found"}
<1>1. phase[p] = "calling" /\ stage[p] \in {"check", "run"} /\ req[p] \in Requests
      /\ last[p] \notin {OK, "not_found"}
  BY DEF Sending, Inv, TypeOK, Local, Shape
<1>2. /\ req[p].op \in {"put", "get", "head", "delete", "copy"}
      /\ req[p].key \in Keys /\ req[p].target \in Keys
  BY <1>1 DEF Requests
<1>3. Wire(p) \in {"PUT", "COPY", "DELETE", "GET", "HEAD"}
  BY <1>2 DEF Wire
<1>4. rest[p] \in Bodies
  BY DEF Inv, TypeOK
<1> QED BY <1>1, <1>2, <1>3, <1>4 DEF Request, RequestFits
-----------------------------------------------------------------------------
(* A request and its answer.                                               *)

\* Either the adapter method has another request, or it is about to return.
LEMMA Continues ==
    ASSUME Inv, NEW p \in Procs, NEW k, Sending(p), Continue(p, k)
    PROVE  /\ \/ /\ step'[p] = "second" /\ stage[p] = "run" /\ step[p] = "first" /\ k = OK
                 /\ req[p].op \in {"put", "get"} \/ (req[p].op = "delete" /\ req[p].strict)
              \/ /\ step'[p] = "replied"
                 /\ \/ /\ reply'[p] = OK /\ step[p] = "second" /\ req[p].op \in {"put", "get"}
                    \/ /\ reply'[p] = k
                       /\ ~(step[p] = "second" /\ req[p].op \in {"put", "get"})
                 /\ k = OK /\ stage[p] = "run" /\ step[p] = "first" =>
                       /\ req[p].op \notin {"put", "get"}
                       /\ ~(req[p].op = "delete" /\ req[p].strict)
           /\ step' = [step EXCEPT ![p] = step'[p]] /\ reply' = [reply EXCEPT ![p] = reply'[p]]
           /\ reply'[p] \in {reply[p], k, OK}
           /\ UNCHANGED <<phase, tries, last, ended, result, stage, req, work, closed>>
  BY DEF Continue, runVars, Inv, TypeOK

LEMMA SendingKeeps ==
    ASSUME Inv, NEW p \in Procs, NEW k \in Answers, Sending(p), Continue(p, k), StoreFits,
           Watch \/ UNCHANGED <<object, held, young, made>>,
           NEW g \in Objects, got' = [got EXCEPT ![p] = g],
           NEW s \in 0..MaxVersions, s <= made', seen' = [seen EXCEPT ![p] = s],
           NEW f \in Bodies \cup {"removed", "none"}, effect' = [effect EXCEPT ![p] = f],
           NEW b \in Bodies, rest' = [rest EXCEPT ![p] = b],
           LateFits', Cardinality(late') <= MaxLate,
           Local(p)'
    PROVE  Inv'
<1>1. /\ step' = [step EXCEPT ![p] = step'[p]] /\ reply' = [reply EXCEPT ![p] = reply'[p]]
      /\ step'[p] \in {"second", "replied"} /\ reply'[p] \in Answers \cup {"none"}
      /\ UNCHANGED <<phase, tries, last, ended, result, stage, req, work, closed>>
  BY Continues DEF Inv, TypeOK, Answers
<1>2. held' \in [Procs -> SUBSET Objects]
  <2>1. \A q \in Procs : stage[q] # "free" => object'[req[q].key] \in Objects
    <3>1. \A q \in Procs : stage[q] # "free" => req[q] \in Requests
      BY DEF Inv, Local, Shape
    <3>2. \A r \in Requests : r.key \in Keys
      BY DEF Requests
    <3> QED BY <3>1, <3>2 DEF StoreFits
  <2>2. \A q \in Procs : held[q] \in SUBSET Objects
    BY DEF Inv, TypeOK
  <2>3. CASE Watch
    BY <2>1, <2>2, <2>3 DEF Watch
  <2>4. CASE held' = held
    BY <2>4 DEF Inv, TypeOK
  <2> QED BY <2>3, <2>4
<1>3. TypeOK'
  <2>1. /\ step' \in [Procs -> {"none", "entry", "first", "second", "replied"}]
        /\ reply' \in [Procs -> Answers \cup {"none"}]
    BY <1>1 DEF Inv, TypeOK
  <2>2. /\ got' \in [Procs -> Objects] /\ seen' \in [Procs -> 0..MaxVersions]
        /\ rest' \in [Procs -> Bodies]
        /\ effect' \in [Procs -> Bodies \cup {"removed", "none"}]
    BY DEF Inv, TypeOK
  <2>3. /\ object' \in [Keys -> Objects] /\ young' \subseteq 1..made'
        /\ made' \in 0..MaxVersions
    BY DEF StoreFits
  <2>4. /\ phase' \in [Procs -> {"idle", "ready", "calling"}]
        /\ tries' \in [Procs -> 0..MaxAttempts]
        /\ last' \in [Procs -> Answers \cup {"none"}]
        /\ ended' \in [Procs -> BOOLEAN]
        /\ result' \in [Procs -> Answers \cup {"none"}]
        /\ work' \in [Procs -> SUBSET Requests]
        /\ stage' \in [Procs -> {"free", "check", "run"}]
        /\ req' \in [Procs -> Requests \cup {NoRequest}]
        /\ closed' \in {"no", "store", "adapter"}
    BY <1>1 DEF Inv, TypeOK
  <2> QED BY <1>2, <2>1, <2>2, <2>3, <2>4 DEF TypeOK
<1>4. Versions'
  <2>1. \A q \in Procs : seen[q] \in 0..MaxVersions /\ seen[q] <= made
    BY DEF Inv, TypeOK, Versions
  <2>2. made \in Nat /\ made' \in Nat /\ made <= made' /\ MaxVersions \in Nat
    BY Numbers DEF StoreFits, Inv, TypeOK
  <2>3. \A q \in Procs : seen'[q] = IF q = p THEN s ELSE seen[q]
    BY DEF Inv, TypeOK
  <2>4. \A q \in Procs : seen'[q] <= made'
    BY <2>1, <2>2, <2>3
  <2> QED BY <2>4 DEF Versions, StoreFits
<1>5. ASSUME NEW q \in Procs, q # p PROVE Local(q)'
  <2>1. Private(q)
    BY <1>1, <1>5 DEF Private, Inv, TypeOK
  <2>2. CASE Watch
    <3>1. Watched(q)
      BY <2>2 DEF Watch, Watched
    <3>2. Renewed
      BY DEF StoreFits
    <3> QED BY <2>1, <3>1, <3>2, LocalKept
  <2>3. CASE UNCHANGED <<object, held, young, made>>
    BY <2>1, <2>3, StillKept
  <2> QED BY <2>2, <2>3
<1> QED BY <1>3, <1>4, <1>5 DEF Inv

\* The call itself, after a request that failed or whose answer was lost: it knows
\* no more than before.
LEMMA FailureKnown ==
    ASSUME Inv, NEW p \in Procs, NEW k \in {"not_found", "auth", "timeout"}, Sending(p),
           Continue(p, k), Watched(p), Renewed, got'[p] = got[p], seen'[p] = seen[p],
           step[p] = "second" /\ req[p].op \in {"put", "get"} => effect'[p] = effect[p],
           k = "not_found" => Absent \in held[p]
    PROVE  Local(p)'
<1>1. /\ step'[p] = "replied"
      /\ \/ /\ reply'[p] = OK /\ step[p] = "second" /\ req[p].op \in {"put", "get"}
         \/ /\ reply'[p] = k
      /\ UNCHANGED <<phase, tries, last, stage, req>>
  BY Continues DEF OK
<1>2. /\ stage[p] \in {"check", "run"} /\ phase[p] = "calling" /\ step[p] # "none"
      /\ last[p] \notin {OK, "not_found"} /\ step[p] # "replied"
  BY WireFits DEF Sending
<1>3. Local(p)
  BY DEF Inv
<1>4. Told(p, OK)' <=> reply'[p] = OK
  BY <1>1, <1>2 DEF Told
<1>5. Told(p, "not_found")' <=> reply'[p] = "not_found"
  BY <1>1, <1>2 DEF Told
<1>6. /\ held[p] \subseteq held'[p] /\ object'[req[p].key] \in held'[p]
      /\ There(p) \subseteq There(p)'
  BY <1>2 DEF Watched, There
<1>7. Shape(p)'
  BY <1>1, <1>2, <1>3 DEF Local, Shape
<1>8. HeldNow(p)'
  BY <1>1, <1>6 DEF HeldNow
<1>9. reply'[p] = OK => step[p] = "second" /\ req[p].op \in {"put", "get"}
  BY <1>1 DEF OK
<1>10. GetFits(p)'
  BY <1>1, <1>3, <1>4, <1>6, <1>9 DEF Local, GetFits
<1>10a. InfoFits(p)'
  BY <1>1, <1>3, <1>6 DEF Local, InfoFits
<1>11. HeadFits(p)' /\ CopyFits(p)'
  BY <1>1, <1>4, <1>9 DEF HeadFits, CopyFits
<1>12. GoneFits(p)'
  BY <1>1, <1>4, <1>5, <1>6, <1>9 DEF GoneFits, OK
<1>13. StrictFits(p)'
  BY <1>1, <1>3, <1>4, <1>6, <1>9 DEF Local, StrictFits
<1>14. PutFits(p)'
  BY <1>1, <1>3, <1>4, <1>6, <1>9 DEF Local, PutFits
<1>14a. WholeFits(p)'
  <2>1. stage'[p] # "free" /\ tries'[p] # 0
    BY <1>1, <1>2, <1>3, Numbers DEF Local, Shape
  <2>2. stage[p] = "run" /\ req[p].op = "put" /\ tries[p] = 1 /\ reply'[p] = OK =>
          effect'[p] = req[p].body
    BY <1>3, <1>9 DEF Local, WholeFits
  <2> QED BY <1>1, <1>4, <2>1, <2>2 DEF WholeFits
<1>15. CheckFits(p)'
  <2>1. seen[p] \in Nat /\ made \in Nat /\ seen[p] <= made
    BY Numbers DEF Inv, TypeOK, Versions
  <2>2. stage[p] = "check" => seen[p] = 0
    BY <1>2, <1>3 DEF Local, CheckFits, Told
  <2> QED BY <1>1, <1>3, <2>1, <2>2 DEF Local, CheckFits, Renewed
<1> QED BY <1>7, <1>8, <1>10, <1>10a, <1>11, <1>12, <1>13, <1>14, <1>14a, <1>15 DEF Local

\* The call itself, after a request that was served.
LEMMA ServeKnown ==
    ASSUME Inv, NEW p \in Procs, Serve(p), StoreFits
    PROVE  Local(p)'
<1>1. /\ Sending(p) /\ Continue(p, OK) /\ Applied(Request(p)) /\ Reads(p) /\ Watch
      /\ effect' = [effect EXCEPT ![p] = EffectOf(p)]
  BY DEF Serve
<1>2. /\ stage[p] \in {"check", "run"} /\ phase[p] = "calling" /\ step[p] \in {"first", "second"}
      /\ last[p] \notin {OK, "not_found"} /\ req[p].key \in Keys
      /\ req[p].op \in {"put", "get", "head", "delete", "copy"}
      /\ Request(p).what = Wire(p) /\ Request(p).key = req[p].key
  BY <1>1, WireFits DEF Sending
<1>3. /\ \/ /\ step'[p] = "second" /\ stage[p] = "run" /\ step[p] = "first"
            /\ req[p].op \in {"put", "get"} \/ (req[p].op = "delete" /\ req[p].strict)
         \/ /\ step'[p] = "replied" /\ reply'[p] = OK
            /\ stage[p] = "run" /\ step[p] = "first" =>
                  /\ req[p].op \notin {"put", "get"}
                  /\ ~(req[p].op = "delete" /\ req[p].strict)
      /\ UNCHANGED <<phase, tries, last, stage, req>>
  BY <1>1, Continues
<1>4. Local(p)
  BY DEF Inv
<1>5. held'[p] = held[p] \cup {object'[req[p].key]} /\ object[req[p].key] \in held[p]
  BY <1>1, <1>2, <1>4 DEF Watch, Local, HeldNow
<1>6. There(p) \subseteq There(p)'
  BY <1>5 DEF There
<1>7. Told(p, OK)' => step'[p] = "replied"
  BY <1>2, <1>3 DEF Told
<1>8. ~Told(p, "not_found")'
  BY <1>2, <1>3 DEF Told, OK
<1>9. /\ got'[p] = IF Wire(p) = "GET" THEN object[req[p].key] ELSE got[p]
      /\ seen'[p] = IF /\ Wire(p) = "HEAD"
                       /\ stage[p] = "check" \/ req[p].op \in {"get", "head", "put"}
                      THEN object[req[p].key].v ELSE seen[p]
      /\ effect'[p] = EffectOf(p)
  BY <1>1 DEF Reads, Inv, TypeOK
<1>10. Wire(p) \in {"GET", "HEAD", "COPY"} => object[req[p].key] \in There(p)
  BY <1>1, <1>2, <1>5 DEF Applied, There
<1>11. Shape(p)'
  BY <1>2, <1>3, <1>4 DEF Local, Shape
<1>12. HeldNow(p)'
  BY <1>3, <1>5 DEF HeldNow
<1>13. GetFits(p)'
  <2> SUFFICES ASSUME stage[p] = "run", req[p].op = "get"
               PROVE  got'[p] \in There(p)'
    BY <1>3 DEF GetFits
  <2>1. Wire(p) = IF step[p] = "first" THEN "GET" ELSE "HEAD"
    BY DEF Wire
  <2>2. object[req[p].key] \in There(p)'
    BY <1>6, <1>10, <2>1
  <2> QED BY <1>2, <1>4, <1>6, <1>9, <2>1, <2>2 DEF Local, GetFits
<1>13a. InfoFits(p)'
  <2> SUFFICES ASSUME stage[p] = "run", req[p].op \in {"get", "put"}
               PROVE  seen'[p] \in {o.v : o \in There(p)'} \cup {0}
    BY <1>3 DEF InfoFits
  <2>1. CASE Wire(p) = "HEAD"
    BY <1>6, <1>9, <1>10, <2>1
  <2>2. CASE Wire(p) # "HEAD"
    BY <1>4, <1>6, <1>9, <2>2 DEF Local, InfoFits
  <2> QED BY <2>1, <2>2
<1>14. HeadFits(p)'
  <2> SUFFICES ASSUME stage[p] = "run", req[p].op = "head"
               PROVE  seen'[p] \in {o.v : o \in There(p)'}
    BY <1>3 DEF HeadFits
  <2>1. Wire(p) = "HEAD"
    BY DEF Wire
  <2> QED BY <1>6, <1>9, <1>10, <2>1
<1>15. CopyFits(p)'
  <2> SUFFICES ASSUME stage[p] = "run", req[p].op = "copy"
               PROVE  effect'[p] \in {o.body : o \in There(p)'}
    BY <1>3 DEF CopyFits
  <2>1. Wire(p) = "COPY"
    BY DEF Wire
  <2>2. EffectOf(p) = object[req[p].key].body
    BY <2>1 DEF EffectOf
  <2> QED BY <1>6, <1>9, <1>10, <2>1, <2>2
<1>16. PutFits(p)'
  <2> SUFFICES ASSUME stage[p] = "run", req[p].op = "put"
               PROVE  effect'[p] \in {o.body : o \in There(p)'}
    BY <1>3 DEF PutFits
  <2>1. Wire(p) = IF step[p] = "first" THEN "PUT" ELSE "HEAD"
    BY DEF Wire
  <2>2. EffectOf(p) = IF step[p] = "first" THEN rest[p] ELSE effect[p]
    BY <2>1 DEF EffectOf
  <2>3. CASE step[p] = "first"
    <3>1. Request(p).body = rest[p] /\ rest[p] \in Bodies
      BY DEF Request, Inv, TypeOK
    <3>2. object'[req[p].key] = [v |-> made + 1, body |-> rest[p]]
      BY <1>1, <1>2, <2>1, <2>3, <3>1 DEF Applied, Stores, Inv, TypeOK
    <3>3. object'[req[p].key] # Absent /\ object'[req[p].key].body = rest[p]
      BY <3>1, <3>2 DEF Absent, Bodies
    <3> QED BY <1>5, <1>9, <2>2, <2>3, <3>3 DEF There
  <2>4. CASE step[p] = "second"
    BY <1>4, <1>6, <1>9, <2>2, <2>4 DEF Local, PutFits
  <2> QED BY <1>2, <2>3, <2>4
<1>16a. WholeFits(p)'
  <2>0. stage'[p] # "free" /\ tries'[p] # 0 /\ step'[p] \in {"second", "replied"}
    BY <1>2, <1>3, <1>4, Numbers DEF Local, Shape
  <2> SUFFICES ASSUME stage[p] = "run", req[p].op = "put", tries[p] = 1
               PROVE  effect'[p] = req[p].body
    BY <1>3, <2>0 DEF WholeFits
  <2>1. Wire(p) = IF step[p] = "first" THEN "PUT" ELSE "HEAD"
    BY DEF Wire
  <2>2. EffectOf(p) = IF step[p] = "first" THEN rest[p] ELSE effect[p]
    BY <2>1 DEF EffectOf
  <2> QED BY <1>2, <1>4, <1>9, <2>2 DEF Local, WholeFits
<1>17. GoneFits(p)'
  <2> SUFFICES ASSUME stage[p] = "run", req[p].op = "delete", step'[p] = "replied"
               PROVE  Absent \in held'[p]
    BY <1>3, <1>7, <1>8 DEF GoneFits
  <2>1. Wire(p) = "DELETE"
    BY <1>2, <1>3 DEF Wire
  <2>2. object'[req[p].key] = Absent
    BY <1>1, <1>2, <2>1 DEF Applied, Inv, TypeOK
  <2> QED BY <1>5, <2>2
<1>18. StrictFits(p)'
  <2> SUFFICES ASSUME req[p].op = "delete", req[p].strict PROVE There(p)' # {}
    BY <1>3 DEF StrictFits
  <2>1. CASE stage[p] = "run"
    BY <1>4, <1>6, <2>1 DEF Local, StrictFits
  <2>2. CASE stage[p] = "check"
    <3>1. Wire(p) = "HEAD"
      BY <2>2 DEF Wire
    <3> QED BY <1>6, <1>10, <3>1
  <2> QED BY <1>2, <2>1, <2>2
<1>19. CheckFits(p)'
  <2>1. CASE stage[p] = "check"
    BY <1>3, <2>1 DEF CheckFits, Told
  <2>2. CASE stage[p] = "run"
    <3> SUFFICES ASSUME req[p].op = "delete", Retention PROVE seen'[p] \notin young'
      BY <1>3, <2>2 DEF CheckFits
    <3>1. seen'[p] = seen[p]
      BY <1>9, <2>2
    <3>2. seen[p] \in Nat /\ made \in Nat /\ seen[p] <= made
      BY Numbers DEF Inv, TypeOK, Versions
    <3> QED BY <1>4, <2>2, <3>1, <3>2 DEF Local, CheckFits, StoreFits, Renewed
  <2> QED BY <1>2, <2>1, <2>2
<1> QED BY <1>11, <1>12, <1>13, <1>13a, <1>14, <1>15, <1>16, <1>16a, <1>17, <1>18, <1>19
        DEF Local

-----------------------------------------------------------------------------
(* The requests, one lemma per outcome.                                    *)

\* The histories follow the object store, or neither moves.
LEMMA Watches ==
    ASSUME Inv, NEW p \in Procs, Watch \/ UNCHANGED <<object, held, young, made>>
    PROVE  Watched(p)
<1>1. Local(p)
  BY DEF Inv
<1> QED BY <1>1 DEF Watch, Watched, Local, HeldNow

LEMMA EffectFits ==
    ASSUME Inv, NEW p \in Procs, Sending(p), Applied(Request(p))
    PROVE  /\ EffectOf(p) \in Bodies \cup {"removed", "none"}
           /\ step[p] = "second" /\ req[p].op \in {"put", "get"} => EffectOf(p) = effect[p]
<1>1. /\ req[p].key \in Keys /\ Request(p).what = Wire(p) /\ Request(p).key = req[p].key
      /\ req[p].op \in {"put", "get", "head", "delete", "copy"}
      /\ stage[p] \in {"check", "run"}
  BY WireFits
<1>2. /\ rest[p] \in Bodies /\ effect[p] \in Bodies \cup {"removed", "none"}
      /\ object[req[p].key] \in Objects
  BY <1>1 DEF Inv, TypeOK
<1>3. Wire(p) = "COPY" => object[req[p].key].body \in Bodies
  BY <1>1, <1>2, Numbers DEF Applied
<1>4. EffectOf(p) \in Bodies \cup {"removed", "none"}
  BY <1>2, <1>3 DEF EffectOf
<1>5. step[p] = "second" /\ req[p].op \in {"put", "get"} => Wire(p) = "HEAD"
  BY <1>1 DEF Wire
<1> QED BY <1>4, <1>5 DEF EffectOf

LEMMA Known ==
    ASSUME Inv, NEW p \in Procs, Sending(p)
    PROVE  /\ step[p] = "second" => req[p].op \in {"put", "get"}
                                    \/ (req[p].op = "delete" /\ req[p].strict)
           /\ got[p] \in Objects /\ seen[p] \in 0..MaxVersions /\ rest[p] \in Bodies
           /\ effect[p] \in Bodies \cup {"removed", "none"}
           /\ got = [got EXCEPT ![p] = got[p]] /\ seen = [seen EXCEPT ![p] = seen[p]]
           /\ rest = [rest EXCEPT ![p] = rest[p]] /\ effect = [effect EXCEPT ![p] = effect[p]]
           /\ seen[p] <= made /\ made \in Nat
           /\ IsFiniteSet(late) /\ Cardinality(late) <= MaxLate
  BY Numbers DEF Inv, TypeOK, Local, Shape, Versions, LateFits

LEMMA ServeInv == ASSUME Inv, NEW p \in Procs, Serve(p) PROVE Inv'
<1>1. /\ Sending(p) /\ Continue(p, OK) /\ Applied(Request(p)) /\ Reads(p) /\ Watch /\ Drained(p)
      /\ effect' = [effect EXCEPT ![p] = EffectOf(p)] /\ late' = late
  BY DEF Serve
<1>2. RequestFits(Request(p)) /\ req[p].key \in Keys
  BY <1>1, WireFits
<1>3. StoreFits
  BY <1>1, <1>2, AppliedFits
<1>4. Local(p)'
  BY <1>3, ServeKnown
<1>5. LateFits' /\ Cardinality(late') <= MaxLate
  BY <1>1 DEF Inv, TypeOK, LateFits
<1>6. EffectOf(p) \in Bodies \cup {"removed", "none"}
  BY <1>1, EffectFits
<1>7. /\ object[req[p].key] \in Objects /\ object[req[p].key].v \in 0..MaxVersions
      /\ object[req[p].key].v <= made /\ made <= made' /\ made \in Nat /\ made' \in Nat
  BY <1>2, <1>3, Numbers DEF Inv, TypeOK, Versions, StoreFits
<1>8. PICK g \in Objects : got' = [got EXCEPT ![p] = g]
  BY <1>1, <1>7, Known DEF Reads
<1>9. PICK s \in 0..MaxVersions : seen' = [seen EXCEPT ![p] = s] /\ s <= made'
  <2>1. seen[p] \in 0..MaxVersions /\ seen[p] <= made' /\ seen = [seen EXCEPT ![p] = seen[p]]
    BY <1>1, <1>7, Known, Numbers
  <2>2. object[req[p].key].v <= made'
    BY <1>7, Numbers
  <2> QED BY <1>1, <1>7, <2>1, <2>2 DEF Reads
<1>10. PICK b \in Bodies : rest' = [rest EXCEPT ![p] = b]
  BY <1>1, Known DEF Drained, Bodies
<1>11. OK \in Answers
  BY DEF Answers
<1> QED BY <1>1, <1>3, <1>4, <1>5, <1>6, <1>8, <1>9, <1>10, <1>11, SendingKeeps

\* A request that failed, whether or not it took effect.
LEMMA FailureInv ==
    ASSUME Inv, NEW p \in Procs, NEW k \in {"not_found", "auth", "timeout"}, Sending(p),
           Continue(p, k), Drained(p) \/ PartlyRead(p),
           UNCHANGED <<got, seen>>,
           \/ /\ Applied(Request(p)) /\ Watch /\ k = "timeout"
              /\ effect' = [effect EXCEPT ![p] = EffectOf(p)]
           \/ UNCHANGED <<object, held, young, made, effect>>,
           LateFits', Cardinality(late') <= MaxLate,
           k = "not_found" => object[req[p].key] = Absent
    PROVE  Inv'
<1>1. RequestFits(Request(p)) /\ stage[p] # "free"
  BY WireFits
<1>2. StoreFits /\ Renewed
  BY <1>1, AppliedFits DEF StoreFits
<1>3. PICK f \in Bodies \cup {"removed", "none"} :
        /\ effect' = [effect EXCEPT ![p] = f]
        /\ step[p] = "second" /\ req[p].op \in {"put", "get"} => f = effect[p]
  BY EffectFits, Known
<1>4. effect'[p] = f
  BY <1>3 DEF Inv, TypeOK
<1>5. PICK b \in Bodies : rest' = [rest EXCEPT ![p] = b]
  <2>1. \A c \in Bodies : Rests(c) \subseteq Bodies
    BY DEF Rests, Bodies
  <2>2. CASE Drained(p)
    BY <2>2, Known DEF Drained, Bodies
  <2>3. CASE PartlyRead(p)
    BY <2>1, <2>3, Known DEF PartlyRead
  <2> QED BY <2>2, <2>3
<1>6. Watched(p)
  BY Watches
<1>7. object[req[p].key] \in held[p]
  BY <1>1 DEF Inv, Local, HeldNow
<1>8. Local(p)'
  BY <1>2, <1>3, <1>4, <1>6, <1>7, FailureKnown
<1>9. seen[p] <= made'
  BY <1>2, Known, Numbers DEF StoreFits
<1>10. k \in Answers
  BY DEF Answers, ErrorKinds
<1> QED BY <1>2, <1>3, <1>5, <1>8, <1>9, <1>10, Known, SendingKeeps

LEMMA LostInv ==
    ASSUME Inv, NEW p \in Procs,
           \/ LoseRequest(p) \/ LoseAnswer(p) \/ GiveUp(p)
           \/ Refuse(p, "not_found") \/ Refuse(p, "auth")
    PROVE  Inv'
<1>1. Sending(p)
  BY DEF LoseRequest, LoseAnswer, GiveUp, Refuse
<1>2. late' = late => LateFits' /\ Cardinality(late') <= MaxLate
  BY DEF Inv, TypeOK, LateFits
<1>3. CASE LoseRequest(p)
  BY <1>1, <1>2, <1>3, FailureInv DEF LoseRequest, readVars, storeVars
<1>4. CASE LoseAnswer(p)
  BY <1>1, <1>2, <1>4, FailureInv DEF LoseAnswer, readVars
<1>5. CASE Refuse(p, "not_found")
  BY <1>1, <1>2, <1>5, FailureInv DEF Refuse, readVars, storeVars
<1>6. CASE Refuse(p, "auth")
  <2>1. "auth" # "not_found"
    OBVIOUS
  <2> QED BY <1>1, <1>2, <1>6, <2>1, FailureInv DEF Refuse, readVars, storeVars
<1>7. CASE GiveUp(p)
  <2>1. /\ late' = late \cup {Request(p)} /\ Cardinality(late) < MaxLate
        /\ Wire(p) \in {"PUT", "DELETE", "COPY"}
    BY <1>7 DEF GiveUp
  <2>2. IsFiniteSet(late) /\ MaxLate \in Nat
    BY Numbers DEF Inv, LateFits
  <2>3. /\ IsFiniteSet(late')
        /\ Cardinality(late') = IF Request(p) \in late THEN Cardinality(late)
                                ELSE Cardinality(late) + 1
    BY <2>1, <2>2, FS_AddElement
  <2>4. Cardinality(late) \in Nat
    BY <2>2, FS_CardinalityType
  <2>5. Cardinality(late') <= MaxLate
    BY <2>1, <2>2, <2>3, <2>4
  <2>6. LateFits'
    BY <1>1, <2>1, <2>3, WireFits DEF Inv, LateFits, RequestFits
  <2> QED BY <1>1, <1>7, <2>5, <2>6, FailureInv DEF GiveUp, readVars
<1> QED BY <1>3, <1>4, <1>5, <1>6, <1>7

LEMMA LateInv == ASSUME Inv, NEW w \in late, LateRequest(w) PROVE Inv'
<1>1. /\ late' = late \ {w} /\ Watch
      /\ Applied(w) \/ UNCHANGED <<object, young, made>>
      /\ UNCHANGED <<runVars, stage, req, step, reply, rest, readVars, work, closed, effect>>
  BY DEF LateRequest
<1>2. StoreFits
  <2>1. RequestFits(w)
    BY DEF Inv, LateFits, RequestFits
  <2> QED BY <1>1, <2>1, AppliedFits
<1>3. /\ IsFiniteSet(late') /\ Cardinality(late') <= MaxLate
  <2>1. IsFiniteSet(late) /\ Cardinality(late) <= MaxLate /\ MaxLate \in Nat
    BY Numbers DEF Inv, TypeOK, LateFits
  <2>2. IsFiniteSet(late') /\ Cardinality(late') = Cardinality(late) - 1
    BY <1>1, <2>1, FS_RemoveElement
  <2>3. Cardinality(late) \in Nat
    BY <2>1, FS_CardinalityType
  <2> QED BY <2>1, <2>2, <2>3
<1>4. LateFits'
  BY <1>1, <1>3 DEF Inv, LateFits
<1>5. held' \in [Procs -> SUBSET Objects]
  <2>1. \A q \in Procs : stage[q] # "free" => object'[req[q].key] \in Objects
    <3>1. \A q \in Procs : stage[q] # "free" => req[q] \in Requests
      BY DEF Inv, Local, Shape
    <3>2. \A r \in Requests : r.key \in Keys
      BY DEF Requests
    <3> QED BY <1>2, <3>1, <3>2 DEF StoreFits
  <2>2. \A q \in Procs : held[q] \in SUBSET Objects
    BY DEF Inv, TypeOK
  <2> QED BY <1>1, <2>1, <2>2 DEF Watch
<1>6. TypeOK'
  BY <1>1, <1>2, <1>3, <1>5 DEF Inv, TypeOK, StoreFits, runVars, readVars
<1>7. Versions'
  <2>1. \A q \in Procs : seen[q] \in 0..MaxVersions /\ seen[q] <= made
    BY DEF Inv, TypeOK, Versions
  <2>2. made \in Nat /\ made' \in Nat /\ made <= made'
    BY <1>2, Numbers DEF StoreFits, Inv, TypeOK
  <2>3. \A q \in Procs : seen[q] <= made'
    BY <2>1, <2>2, Numbers
  <2> QED BY <1>1, <1>2, <2>3 DEF Versions, StoreFits, readVars
<1>8. ASSUME NEW q \in Procs PROVE Local(q)'
  <2>1. Private(q)
    BY <1>1 DEF Private, runVars, readVars
  <2>2. Watched(q) /\ Renewed
    BY <1>1, <1>2, Watches DEF StoreFits
  <2> QED BY <2>1, <2>2, LocalKept
<1> QED BY <1>4, <1>6, <1>7, <1>8 DEF Inv

-----------------------------------------------------------------------------
(* The steps of a call that leave the object store alone.                  *)

LEMMA OwnStep ==
    ASSUME Inv, NEW p \in Procs, UNCHANGED storeVars,
           \A q \in Procs : q # p => Private(q) /\ held'[q] = held[q],
           TypeOK', seen'[p] \in {0, seen[p]}, Local(p)'
    PROVE  Inv'
<1>1. LateFits'
  BY DEF Inv, LateFits, storeVars
<1>2. Versions'
  <2>1. \A q \in Procs : seen'[q] \in {0, seen[q]}
    BY DEF Private
  <2>2. \A q \in Procs : seen[q] \in Nat /\ seen[q] <= made
    BY Numbers DEF Inv, TypeOK, Versions
  <2>3. made \in Nat /\ made' = made
    BY Numbers DEF Inv, TypeOK, storeVars
  <2>4. \A q \in Procs : seen'[q] <= made'
    BY <2>1, <2>2, <2>3
  <2> QED BY <2>4 DEF Inv, Versions, storeVars
<1>3. ASSUME NEW q \in Procs, q # p PROVE Local(q)'
  <2>1. Private(q) /\ held'[q] = held[q]
    BY <1>3
  <2>2. Watched(q) /\ Renewed
    BY <2>1 DEF Watched, Renewed, storeVars, Inv, Local, HeldNow
  <2> QED BY <2>1, <2>2, LocalKept
<1> QED BY <1>1, <1>2, <1>3 DEF Inv

LEMMA BeginInv == ASSUME Inv, NEW p \in Procs, NEW r \in Requests, Begin(p, r) PROVE Inv'
<1>1. CASE closed # "no"
  <2>1. /\ result' = [result EXCEPT ![p] = "closed"]
        /\ UNCHANGED <<phase, tries, last, ended, stage, req, held, step, reply, rest, readVars,
                       work, closed, storeVars, effect>>
    BY <1>1 DEF Begin
  <2>2. TypeOK'
    BY <2>1 DEF Inv, TypeOK, readVars, storeVars, Answers, ErrorKinds
  <2>3. \A q \in Procs : Private(q) /\ held'[q] = held[q]
    BY <2>1 DEF Private, readVars
  <2>4. Local(p)'
    BY <2>1, <2>3, StillKept DEF storeVars
  <2> QED BY <2>1, <2>2, <2>3, <2>4, OwnStep DEF readVars
<1>2. CASE closed = "no"
  <2>1. /\ stage[p] = "free" /\ phase[p] = "idle" /\ phase' = [phase EXCEPT ![p] = "ready"]
        /\ result' = [result EXCEPT ![p] = "none"] /\ req' = [req EXCEPT ![p] = r]
        /\ stage' = [stage EXCEPT ![p] =
                       IF r.op = "delete" /\ (r.strict \/ Retention) THEN "check" ELSE "run"]
        /\ held' = [held EXCEPT ![p] = {object[r.key]}]
        /\ rest' = [rest EXCEPT ![p] = r.body]
        /\ UNCHANGED <<tries, last, ended, step, reply, readVars, work, closed, storeVars, effect>>
    BY <1>2 DEF Begin, Run!Start
  <2>2. object[r.key] \in Objects /\ r.op \in {"put", "get", "head", "delete", "copy"}
        /\ r.body \in Bodies
    BY DEF Requests, Inv, TypeOK
  <2>3. TypeOK'
    BY <2>1, <2>2 DEF Inv, TypeOK, readVars, storeVars
  <2>4. \A q \in Procs : q # p => Private(q) /\ held'[q] = held[q]
    BY <2>1 DEF Private, readVars, Inv, TypeOK
  <2>5. /\ stage'[p] = IF r.op = "delete" /\ (r.strict \/ Retention) THEN "check" ELSE "run"
        /\ req'[p] = r /\ phase'[p] = "ready" /\ held'[p] = {object[r.key]}
        /\ rest'[p] = r.body
    BY <2>1 DEF Inv, TypeOK
  <2>6. /\ last'[p] = "none" /\ step'[p] = "none" /\ seen'[p] = 0 /\ tries'[p] = 0
    BY <2>1 DEF Inv, Local, Shape, readVars
  <2>7. \A k : k # "none" => ~Told(p, k)'
    BY <2>6 DEF Told
  <2>8. Shape(p)' /\ HeldNow(p)'
    BY <2>1, <2>2, <2>5, <2>6 DEF Shape, HeldNow, storeVars, OK
  <2>9. Local(p)'
    <3>1. /\ GetFits(p)' /\ InfoFits(p)' /\ HeadFits(p)' /\ GoneFits(p)'
          /\ CopyFits(p)' /\ PutFits(p)'
      BY <2>6, <2>7 DEF GetFits, InfoFits, HeadFits, GoneFits, CopyFits, PutFits, OK
    <3>2. StrictFits(p)'
      BY <2>2, <2>5, <2>7 DEF StrictFits, OK
    <3>3. 0 \notin young
      BY Numbers DEF Inv, TypeOK
    <3>4. CheckFits(p)'
      BY <2>1, <2>6, <3>3 DEF CheckFits, storeVars
    <3>5. WholeFits(p)'
      BY <2>5, <2>6, <2>7 DEF WholeFits, OK
    <3> QED BY <2>8, <3>1, <3>2, <3>4, <3>5 DEF Local
  <2> QED BY <2>1, <2>3, <2>4, <2>9, OwnStep DEF readVars
<1> QED BY <1>1, <1>2

LEMMA ContextInv == ASSUME Inv, NEW p \in Procs, CtxEnds(p) PROVE Inv'
<1>1. /\ ended' = [ended EXCEPT ![p] = TRUE]
      /\ UNCHANGED <<phase, tries, last, result, stage, req, step, reply, rest, readVars, work,
                     closed, storeVars, held, effect>>
  BY DEF CtxEnds, Run!CtxEnds
<1>2. TypeOK'
  BY <1>1 DEF Inv, TypeOK, readVars, storeVars
<1>3. \A q \in Procs : Private(q) /\ held'[q] = held[q]
  BY <1>1 DEF Private, readVars
<1>4. Local(p)'
  BY <1>1, <1>3, StillKept DEF storeVars
<1> QED BY <1>1, <1>2, <1>3, <1>4, OwnStep DEF readVars

\* A step inside the attempt that brings no answer of the store.
LEMMA NothingNew ==
    ASSUME Inv, NEW p \in Procs, stage[p] # "free", stage'[p] = stage[p], req'[p] = req[p],
           UNCHANGED storeVars, held'[p] = held[p], got'[p] = got[p], seen'[p] = seen[p],
           effect'[p] = effect[p], rest'[p] = rest[p],
           (tries'[p] = tries[p] /\ step[p] = "entry") \/ tries'[p] = tries[p] + 1,
           Shape(p)', step[p] # "second", step'[p] # "second",
           ~Told(p, OK), ~Told(p, OK)', ~Told(p, "not_found")'
    PROVE  Local(p)'
<1>1. Local(p)
  BY DEF Inv
<1>2. HeldNow(p)'
  BY <1>1 DEF Local, HeldNow, storeVars
<1>3. There(p)' = There(p)
  BY DEF There
<1>4. GetFits(p)' /\ InfoFits(p)' /\ HeadFits(p)' /\ CopyFits(p)' /\ PutFits(p)'
  BY <1>1, <1>3 DEF Local, GetFits, InfoFits, HeadFits, CopyFits, PutFits
<1>5. GoneFits(p)' /\ StrictFits(p)'
  BY <1>1, <1>3 DEF Local, GoneFits, StrictFits
<1>6. CheckFits(p)'
  BY <1>1 DEF Local, CheckFits, storeVars
<1>7. WholeFits(p)'
  <2>1. tries[p] \in Nat
    BY Numbers DEF Inv, TypeOK
  <2>2. tries'[p] = 0 => FALSE
    BY <1>1, <2>1 DEF Local, Shape
  <2>3. tries'[p] = 1 => tries[p] = 0 \/ (tries[p] = 1 /\ step[p] = "entry")
    BY <2>1
  <2> QED BY <1>1, <2>2, <2>3 DEF Local, WholeFits
<1> QED BY <1>2, <1>4, <1>5, <1>6, <1>7 DEF Local

LEMMA InvokeInv == ASSUME Inv, NEW p \in Procs, Invoke(p) PROVE Inv'
<1>1. /\ phase[p] = "ready"
      /\ tries[p] = 0 \/ (IsRetryable(last[p]) /\ tries[p] < MaxAttempts)
      /\ phase' = [phase EXCEPT ![p] = "calling"] /\ tries' = [tries EXCEPT ![p] = @ + 1]
      /\ step' = [step EXCEPT ![p] = "entry"]
      /\ UNCHANGED <<last, ended, result, stage, req, reply, rest, readVars, work, closed,
                     storeVars, held, effect>>
  BY DEF Invoke, Run!Invoke, Run!MayInvoke, Run!IsRetryable, IsRetryable
<1>2. tries[p] + 1 \in 0..MaxAttempts
  BY <1>1, Numbers DEF Inv, TypeOK
<1>3. TypeOK'
  BY <1>1, <1>2 DEF Inv, TypeOK, readVars, storeVars
<1>4. \A q \in Procs : q # p => Private(q) /\ held'[q] = held[q]
  BY <1>1 DEF Private, readVars, Inv, TypeOK
<1>5. /\ stage[p] # "free" /\ step[p] = "none" /\ last[p] \notin {OK, "not_found"}
  BY <1>1 DEF Inv, TypeOK, Local, Shape, IsRetryable, OK
<1>6. /\ phase'[p] = "calling" /\ step'[p] = "entry" /\ last'[p] = last[p]
  BY <1>1 DEF Inv, TypeOK
<1>7. Shape(p)'
  <2>1. tries'[p] > 0
    BY <1>1, Numbers DEF Inv, TypeOK
  <2> QED BY <1>1, <1>5, <1>6, <2>1 DEF Inv, Local, Shape
<1>8. ~Told(p, OK) /\ ~Told(p, OK)' /\ ~Told(p, "not_found")'
  BY <1>5, <1>6 DEF Told
<1>8a. tries'[p] = tries[p] + 1
  BY <1>1 DEF Inv, TypeOK
<1>9. Local(p)'
  BY <1>1, <1>5, <1>6, <1>7, <1>8, <1>8a, NothingNew DEF readVars
<1> QED BY <1>1, <1>3, <1>4, <1>9, OwnStep DEF readVars

LEMMA EntryInv == ASSUME Inv, NEW p \in Procs, AdapterEntry(p) PROVE Inv'
<1>1. /\ step[p] = "entry"
      /\ step' = [step EXCEPT ![p] = IF closed = "adapter" THEN "replied" ELSE "first"]
      /\ reply' = [reply EXCEPT ![p] = IF closed = "adapter" THEN "closed" ELSE @]
      /\ UNCHANGED <<runVars, stage, req, rest, readVars, work, closed, storeVars, held, effect>>
  BY DEF AdapterEntry
<1>2. TypeOK'
  BY <1>1 DEF Inv, TypeOK, runVars, readVars, storeVars, Answers, ErrorKinds
<1>3. \A q \in Procs : q # p => Private(q) /\ held'[q] = held[q]
  BY <1>1 DEF Private, runVars, readVars, Inv, TypeOK
<1>4. /\ stage[p] # "free" /\ phase[p] = "calling" /\ last[p] \notin {OK, "not_found"}
  BY <1>1 DEF Inv, TypeOK, Local, Shape, OK
<1>5. /\ step'[p] \in {"replied", "first"} /\ step'[p] = "replied" => reply'[p] = "closed"
      /\ phase'[p] = phase[p] /\ last'[p] = last[p]
  BY <1>1 DEF Inv, TypeOK, runVars
<1>6. Shape(p)'
  BY <1>1, <1>4, <1>5 DEF Inv, Local, Shape, runVars
<1>7. ~Told(p, OK) /\ ~Told(p, OK)' /\ ~Told(p, "not_found")'
  BY <1>1, <1>4, <1>5 DEF Told, OK
<1>8. Local(p)'
  BY <1>1, <1>4, <1>5, <1>6, <1>7, NothingNew DEF runVars, readVars
<1> QED BY <1>1, <1>2, <1>3, <1>8, OwnStep DEF readVars

LEMMA ReturnInv == ASSUME Inv, NEW p \in Procs, FnReturns(p) PROVE Inv'
<1>1. /\ step[p] = "replied" /\ phase[p] = "calling" /\ phase' = [phase EXCEPT ![p] = "ready"]
      /\ last' = [last EXCEPT ![p] = reply[p]] /\ step' = [step EXCEPT ![p] = "none"]
      /\ reply' = [reply EXCEPT ![p] = "none"]
      /\ UNCHANGED <<tries, ended, result, stage, req, rest, readVars, work, closed, storeVars,
                     held, effect>>
  BY DEF FnReturns, Run!Answer
<1>2. TypeOK'
  BY <1>1 DEF Inv, TypeOK, readVars, storeVars
<1>3. \A q \in Procs : q # p => Private(q) /\ held'[q] = held[q]
  BY <1>1 DEF Private, readVars, Inv, TypeOK
<1>4. Local(p) /\ stage[p] # "free"
  BY <1>1 DEF Inv, Local, Shape
<1>5. /\ phase'[p] = "ready" /\ last'[p] = reply[p] /\ step'[p] = "none"
      /\ UNCHANGED <<tries, stage, req, readVars, storeVars, held, effect>>
  BY <1>1 DEF Inv, TypeOK
<1>6. \A k \in {OK, "not_found"} : Told(p, k)' => Told(p, k)
  BY <1>1, <1>5 DEF Told, OK
<1>7. Told(p, OK) => Told(p, OK)'
  BY <1>1, <1>4, <1>5 DEF Told, Local, Shape
<1>8. There(p)' = There(p)
  BY <1>5 DEF There
<1>9. Shape(p)'
  <2>1. tries[p] > 0
    BY <1>1, Numbers DEF Inv, TypeOK, Local, Shape
  <2> QED BY <1>1, <1>4, <1>5, <2>1 DEF Local, Shape
<1>10. Local(p)'
  <2>1. HeldNow(p)'
    BY <1>4, <1>5 DEF Local, HeldNow, storeVars
  <2>2. GetFits(p)' /\ InfoFits(p)' /\ HeadFits(p)' /\ CopyFits(p)' /\ PutFits(p)'
    BY <1>4, <1>5, <1>6, <1>8 DEF Local, GetFits, InfoFits, HeadFits, CopyFits, PutFits, readVars
  <2>3. GoneFits(p)' /\ StrictFits(p)'
    BY <1>4, <1>5, <1>6, <1>8 DEF Local, GoneFits, StrictFits
  <2>4. CheckFits(p)'
    BY <1>4, <1>5, <1>7 DEF Local, CheckFits, storeVars, readVars
  <2>5. WholeFits(p)'
    <3>1. tries'[p] # 0 /\ stage'[p] # "free"
      BY <1>1, <1>4, <1>5, Numbers DEF Local, Shape
    <3> QED BY <1>4, <1>5, <1>6, <3>1 DEF Local, WholeFits
  <2> QED BY <1>9, <2>1, <2>2, <2>3, <2>4, <2>5 DEF Local
<1> QED BY <1>1, <1>2, <1>3, <1>10, OwnStep DEF readVars

-----------------------------------------------------------------------------
(* How the calls end.                                                      *)

\* What Store.run returns to the operation is an answer of the last attempt, or
\* there was none and the context ended or the breaker refused.
LEMMA Returning ==
    ASSUME Inv, NEW p \in Procs, NEW k, RunReturns(p, k)
    PROVE  /\ phase[p] = "ready" /\ step[p] = "none"
           /\ k = last[p] \/ (k \in {"canceled", "unavailable"} /\ last[p] # OK)
           /\ \A j : Told(p, j) <=> last[p] = j
           /\ tries' = [tries EXCEPT ![p] = 0] /\ last' = [last EXCEPT ![p] = "none"]
           /\ UNCHANGED <<step, reply, work, closed, storeVars>>
<1>1. Local(p) /\ tries[p] \in Nat
  BY Numbers DEF Inv, TypeOK
<1>2. phase[p] = "ready" /\ step[p] = "none"
  BY <1>1 DEF RunReturns, Local, Shape
<1>3. last[p] = OK => tries[p] > 0 /\ ~IsRetryable(last[p])
  BY <1>1 DEF Local, Shape, IsRetryable, OK
<1>4. k = last[p] \/ (k \in {"canceled", "unavailable"} /\ last[p] # OK)
  BY <1>1, <1>3 DEF RunReturns, Run!MayReturn, Run!Final, Run!IsRetryable, IsRetryable
<1>5. \A j : Told(p, j) <=> last[p] = j
  BY <1>2 DEF Told
<1> QED BY <1>2, <1>4, <1>5 DEF RunReturns

LEMMA EndInv ==
    ASSUME Inv, NEW p \in Procs, NEW k \in Answers, NEW j \in Answers,
           RunReturns(p, k), Ends(p, j)
    PROVE  Inv'
<1>1. /\ phase[p] = "ready" /\ step[p] = "none"
      /\ tries' = [tries EXCEPT ![p] = 0] /\ last' = [last EXCEPT ![p] = "none"]
      /\ UNCHANGED <<step, reply, work, closed, storeVars>>
  BY Returning
<1>2. /\ stage' = [stage EXCEPT ![p] = "free"] /\ phase' = [phase EXCEPT ![p] = "idle"]
      /\ ended' = [ended EXCEPT ![p] = FALSE] /\ result' = [result EXCEPT ![p] = j]
      /\ req' = [req EXCEPT ![p] = NoRequest] /\ rest' = [rest EXCEPT ![p] = "empty"]
      /\ got' = [got EXCEPT ![p] = Absent] /\ seen' = [seen EXCEPT ![p] = 0]
      /\ held' = [held EXCEPT ![p] = {}] /\ effect' = [effect EXCEPT ![p] = "none"]
  BY DEF Ends
<1>3. TypeOK'
  BY <1>1, <1>2, Numbers DEF Inv, TypeOK, storeVars, Bodies
<1>4. \A q \in Procs : q # p => Private(q) /\ held'[q] = held[q]
  BY <1>1, <1>2 DEF Private, Inv, TypeOK
<1>5. /\ stage'[p] = "free" /\ phase'[p] = "idle" /\ tries'[p] = 0 /\ last'[p] = "none"
      /\ seen'[p] = 0 /\ got'[p] = Absent /\ effect'[p] = "none" /\ step'[p] = "none"
  BY <1>1, <1>2 DEF Inv, TypeOK
<1>6. Local(p)'
  <2>1. Shape(p)'
    BY <1>5 DEF Shape, OK
  <2> QED BY <1>5, <2>1 DEF Local, HeldNow, GetFits, InfoFits, HeadFits, GoneFits, StrictFits,
                            CopyFits, PutFits, WholeFits, CheckFits
<1> QED BY <1>1, <1>3, <1>4, <1>5, <1>6, OwnStep

LEMMA CheckInv == ASSUME Inv, NEW p \in Procs, NEW k \in Answers, FinishCheck(p, k) PROVE Inv'
<1>1. stage[p] = "check" /\ RunReturns(p, k)
  BY DEF FinishCheck
<1>2. CASE Verdict(p, k) # OK
  <2>1. Verdict(p, k) \in Answers
    BY DEF Verdict, Answers, ErrorKinds
  <2> QED BY <1>1, <1>2, <2>1, EndInv DEF FinishCheck
<1>3. CASE Verdict(p, k) = OK
  <2>1. /\ phase[p] = "ready" /\ step[p] = "none"
        /\ k = last[p] \/ (k \in {"canceled", "unavailable"} /\ last[p] # OK)
        /\ \A j : Told(p, j) <=> last[p] = j
        /\ tries' = [tries EXCEPT ![p] = 0] /\ last' = [last EXCEPT ![p] = "none"]
        /\ UNCHANGED <<step, reply, work, closed, storeVars>>
    BY <1>1, Returning
  <2>2. /\ stage' = [stage EXCEPT ![p] = "run"]
        /\ UNCHANGED <<phase, ended, result, req, rest, readVars, held, effect>>
    BY <1>3 DEF FinishCheck
  <2>3. TypeOK'
    BY <2>1, <2>2, Numbers DEF Inv, TypeOK, storeVars, readVars
  <2>4. \A q \in Procs : q # p => Private(q) /\ held'[q] = held[q]
    BY <2>1, <2>2 DEF Private, Inv, TypeOK, readVars
  <2>5. /\ stage'[p] = "run" /\ phase'[p] = "ready" /\ tries'[p] = 0 /\ last'[p] = "none"
        /\ step'[p] = "none" /\ seen'[p] = seen[p]
    BY <2>1, <2>2 DEF Inv, TypeOK, readVars
  <2>6. Local(p) /\ req[p].op = "delete"
    BY <1>1 DEF Inv, Local, Shape
  <2>7. \A j : j # "none" => ~Told(p, j)'
    BY <2>5 DEF Told
  <2>8. Shape(p)'
    BY <1>1, <2>2, <2>5, <2>6 DEF Local, Shape, OK
  <2>9. HeldNow(p)'
    BY <1>1, <2>1, <2>2, <2>6 DEF Local, HeldNow, storeVars
  <2>10. GetFits(p)' /\ InfoFits(p)' /\ HeadFits(p)' /\ CopyFits(p)' /\ PutFits(p)'
    BY <2>2, <2>6 DEF GetFits, InfoFits, HeadFits, CopyFits, PutFits
  <2>11. GoneFits(p)'
    BY <2>7 DEF GoneFits, OK
  <2>12. StrictFits(p)'
    <3> SUFFICES ASSUME req[p].strict PROVE There(p) # {}
      BY <2>2 DEF StrictFits, There
    <3>1. k = OK
      BY <1>3 DEF Verdict
    <3>2. last[p] = OK
      BY <2>1, <3>1 DEF OK
    <3> QED BY <1>1, <2>1, <2>6, <3>2 DEF Local, StrictFits
  <2>13. CheckFits(p)'
    <3> SUFFICES ASSUME Retention PROVE seen[p] \notin young
      BY <2>1, <2>5 DEF CheckFits, storeVars
    <3>1. CASE k = OK
      BY <1>3, <3>1 DEF Verdict, OK
    <3>2. CASE k # OK
      <4>1. last[p] # OK
        BY <2>1, <3>2
      <4>2. seen[p] = 0
        BY <1>1, <2>1, <2>6, <4>1 DEF Local, CheckFits
      <4> QED BY <4>2, Numbers DEF Inv, TypeOK
    <3> QED BY <3>1, <3>2
  <2>14. WholeFits(p)'
    BY <2>2, <2>5, <2>6 DEF WholeFits
  <2>15. Local(p)'
    BY <2>8, <2>9, <2>10, <2>11, <2>12, <2>13, <2>14 DEF Local
  <2> QED BY <2>1, <2>3, <2>4, <2>5, <2>15, OwnStep
<1> QED BY <1>2, <1>3

LEMMA FinishInv == ASSUME Inv, NEW p \in Procs, NEW k \in Answers, Finish(p, k) PROVE Inv'
<1>1. Returned(p, k) \in Answers
  BY DEF Returned, Answers
<1> QED BY <1>1, EndInv DEF Finish

LEMMA AgesInv == ASSUME Inv, NEW v \in young, Ages(v) PROVE Inv'
<1>1. /\ young' = young \ {v}
      /\ UNCHANGED <<runVars, stage, req, step, reply, rest, readVars, work, closed, object, made,
                     late, held, effect>>
  BY DEF Ages
<1>2. TypeOK'
  BY <1>1 DEF Inv, TypeOK, runVars, readVars
<1>3. LateFits' /\ Versions'
  BY <1>1 DEF Inv, LateFits, Versions, readVars
<1>4. ASSUME NEW q \in Procs PROVE Local(q)'
  <2>1. Private(q) /\ Watched(q) /\ Renewed
    BY <1>1 DEF Private, runVars, readVars, Watched, Renewed, Inv, Local, HeldNow
  <2> QED BY <2>1, LocalKept
<1> QED BY <1>2, <1>3, <1>4 DEF Inv

LEMMA StillInv == ASSUME Inv, Close \/ UNCHANGED vars PROVE Inv'
<1>1. /\ closed' \in {"no", "store", "adapter"}
      /\ UNCHANGED <<runVars, work, stage, req, step, reply, rest, readVars, storeVars, held,
                     effect>>
  BY DEF Close, vars, Inv, TypeOK
<1>2. TypeOK'
  BY <1>1 DEF Inv, TypeOK, runVars, readVars, storeVars
<1>3. LateFits' /\ Versions'
  BY <1>1 DEF Inv, LateFits, Versions, readVars, storeVars
<1>4. ASSUME NEW q \in Procs PROVE Local(q)'
  <2>1. Private(q)
    BY <1>1 DEF Private, runVars, readVars
  <2> QED BY <1>1, <2>1, StillKept DEF storeVars
<1> QED BY <1>2, <1>3, <1>4 DEF Inv

-----------------------------------------------------------------------------
(* The theorems.                                                           *)

LEMMA InitInv == Init => Inv
<1> SUFFICES ASSUME Init PROVE Inv
  OBVIOUS
<1>1. /\ phase = [p \in Procs |-> "idle"] /\ tries = [p \in Procs |-> 0]
      /\ last = [p \in Procs |-> "none"] /\ ended = [p \in Procs |-> FALSE]
      /\ result = [p \in Procs |-> "none"]
  BY DEF Init, Run!Init
<1>2. IsFiniteSet({}) /\ Cardinality({}) = 0
  BY FS_EmptySet
<1>3. TypeOK
  BY <1>1, <1>2, Numbers, BlobStoreAssumption DEF Init, TypeOK, Bodies
<1>4. LateFits /\ Versions
  BY <1>2, Numbers DEF Init, LateFits, Versions
<1>5. ASSUME NEW p \in Procs PROVE Local(p)
  <2>1. Shape(p) /\ stage[p] = "free"
    BY <1>1 DEF Init, Shape, OK
  <2> QED BY <2>1 DEF Local, HeldNow, GetFits, InfoFits, HeadFits, GoneFits, StrictFits,
                      CopyFits, PutFits, WholeFits, CheckFits
<1> QED BY <1>3, <1>4, <1>5 DEF Inv

LEMMA NextInv == Inv /\ [Next]_vars => Inv'
<1> SUFFICES ASSUME Inv, [Next]_vars PROVE Inv'
  OBVIOUS
<1>1. ASSUME NEW p \in Procs, NEW r \in work[p], Begin(p, r) PROVE Inv'
  <2>1. r \in Requests
    BY <1>1 DEF Inv, TypeOK
  <2> QED BY <1>1, <2>1, BeginInv
<1>2. ASSUME NEW p \in Procs, CtxEnds(p) PROVE Inv'
  BY <1>2, ContextInv
<1>3. ASSUME NEW p \in Procs, Invoke(p) PROVE Inv'
  BY <1>3, InvokeInv
<1>4. ASSUME NEW p \in Procs, AdapterEntry(p) PROVE Inv'
  BY <1>4, EntryInv
<1>5. ASSUME NEW p \in Procs, Serve(p) PROVE Inv'
  BY <1>5, ServeInv
<1>6. ASSUME NEW p \in Procs, LoseRequest(p) \/ LoseAnswer(p) \/ GiveUp(p) PROVE Inv'
  BY <1>6, LostInv
<1>7. ASSUME NEW p \in Procs, NEW k \in {"not_found", "auth"}, Refuse(p, k) PROVE Inv'
  BY <1>7, LostInv
<1>8. ASSUME NEW p \in Procs, FnReturns(p) PROVE Inv'
  BY <1>8, ReturnInv
<1>9. ASSUME NEW p \in Procs, NEW k \in Answers, FinishCheck(p, k) PROVE Inv'
  BY <1>9, CheckInv
<1>10. ASSUME NEW p \in Procs, NEW k \in Answers, Finish(p, k) PROVE Inv'
  BY <1>10, FinishInv
<1>11. ASSUME NEW w \in late, LateRequest(w) PROVE Inv'
  BY <1>11, LateInv
<1>12. ASSUME NEW v \in young, Ages(v) PROVE Inv'
  BY <1>12, AgesInv
<1>13. CASE Close \/ UNCHANGED vars
  BY <1>13, StillInv
<1> QED BY <1>1, <1>2, <1>3, <1>4, <1>5, <1>6, <1>7, <1>8, <1>9, <1>10, <1>11, <1>12, <1>13 DEF Next

\* The invariant: where each call is, and what its locals say of what its key held.
THEOREM Invariance == Spec => []Inv
<1> QED BY InitInv, NextInv, PTL DEF Spec

\* Every variable of the operations, the adapter and the store stays in its domain,
\* the versions and the requests on their way within their bounds.
THEOREM TypeCorrect == Spec => []TypeOK
<1>1. Inv => TypeOK
  BY DEF Inv
<1> QED BY <1>1, Invariance, PTL

\* Only the end of a Store.run ends a call.
LEMMA OverIsAnEnd ==
    ASSUME Inv, Next, NEW p \in Procs, Over(p)
    PROVE  \E k \in Answers : FinishCheck(p, k) \/ Finish(p, k)
<1>0. stage \in [Procs -> {"free", "check", "run"}] /\ stage[p] # "free" /\ stage'[p] = "free"
  BY DEF Inv, TypeOK, Over
<1>1. ASSUME NEW q \in Procs, NEW r \in work[q], Begin(q, r) PROVE FALSE
  BY <1>0, <1>1 DEF Begin
<1>2. ASSUME NEW q \in Procs, CtxEnds(q) \/ Invoke(q) \/ AdapterEntry(q) \/ FnReturns(q)
      PROVE  FALSE
  BY <1>0, <1>2 DEF CtxEnds, Invoke, AdapterEntry, FnReturns
<1>3. ASSUME NEW q \in Procs, Serve(q) \/ LoseRequest(q) \/ LoseAnswer(q) \/ GiveUp(q)
      PROVE  FALSE
  BY <1>0, <1>3 DEF Serve, LoseRequest, LoseAnswer, GiveUp, Continue
<1>4. ASSUME NEW q \in Procs, NEW k \in {"not_found", "auth"}, Refuse(q, k) PROVE FALSE
  BY <1>0, <1>4 DEF Refuse, Continue
<1>5. ASSUME NEW q \in Procs, NEW k \in Answers, FinishCheck(q, k) \/ Finish(q, k), q # p
      PROVE  FALSE
  BY <1>0, <1>5 DEF FinishCheck, Finish, Ends
<1>6. ASSUME NEW w \in late, LateRequest(w) PROVE FALSE
  BY <1>0, <1>6 DEF LateRequest
<1>7. ASSUME NEW v \in young, Ages(v) PROVE FALSE
  BY <1>0, <1>7 DEF Ages
<1>8. ~Close
  BY <1>0 DEF Close
<1> QED BY <1>1, <1>2, <1>3, <1>4, <1>5, <1>6, <1>7, <1>8 DEF Next

\* blobstore.go: whatever the retries, the lost answers and the other callers, what
\* Put, Get, Head, Delete and Copy return was true of the key during the call.
THEOREM AnswersTrue == Spec => AnswersWereTrue
<1> DEFINE WasTrue(p) ==
      LET op == req[p].op
          k == result'[p]
          there == held[p] \ {Absent}
      IN  /\ op = "get" /\ k = OK => got[p] \in there
          /\ op \in {"get", "put"} /\ k = OK => seen[p] \in {o.v : o \in there} \cup {0}
          /\ op = "head" /\ k = OK => seen[p] \in {o.v : o \in there}
          /\ k = "not_found" \/ (op = "delete" /\ k = OK) => Absent \in held[p]
          /\ op = "delete" /\ req[p].strict /\ k = OK => there # {}
          /\ op \in {"copy", "put"} /\ k = OK => effect[p] \in {o.body : o \in there}
          /\ op = "put" /\ k = OK /\ tries[p] = 1 => effect[p] = req[p].body
<1>1. ASSUME Inv, NEW p \in Procs, NEW k \in Answers, Finish(p, k) PROVE WasTrue(p)
  <2>1. stage[p] = "run" /\ RunReturns(p, k) /\ Local(p)
    BY <1>1 DEF Finish, Inv
  <2>2. result'[p] = Returned(p, k)
    BY <1>1 DEF Finish, Ends, Inv, TypeOK
  <2>3. k \in {OK, "not_found"} => Told(p, k)
    BY <1>1, <2>1, Returning DEF OK
  <2>4. req[p].op # "delete" => result'[p] = k
    BY <2>2 DEF Returned
  <2>5. req[p].op = "delete" /\ result'[p] = OK => k \in {OK, "not_found"}
    BY <2>2 DEF Returned
  <2>6. result'[p] = "not_found" => k = "not_found"
    BY <2>2 DEF Returned, OK
  <2>7. /\ req[p].op = "get" /\ result'[p] = OK =>
             got[p] \in There(p)
        /\ req[p].op \in {"get", "put"} /\ result'[p] = OK =>
             seen[p] \in {o.v : o \in There(p)} \cup {0}
        /\ req[p].op = "head" /\ result'[p] = OK => seen[p] \in {o.v : o \in There(p)}
    BY <2>1, <2>3, <2>4 DEF Local, GetFits, InfoFits, HeadFits
  <2>8. result'[p] = "not_found" \/ (req[p].op = "delete" /\ result'[p] = OK) => Absent \in held[p]
    BY <2>1, <2>3, <2>5, <2>6 DEF Local, GoneFits
  <2>9. req[p].op = "delete" /\ req[p].strict /\ result'[p] = OK => There(p) # {}
    BY <2>1 DEF Local, StrictFits
  <2>10. req[p].op \in {"copy", "put"} /\ result'[p] = OK =>
            effect[p] \in {o.body : o \in There(p)}
    BY <2>1, <2>3, <2>4 DEF Local, CopyFits, PutFits
  <2>11. req[p].op = "put" /\ result'[p] = OK /\ tries[p] = 1 => effect[p] = req[p].body
    BY <2>1, <2>3, <2>4 DEF Local, WholeFits
  <2> QED BY <2>7, <2>8, <2>9, <2>10, <2>11 DEF There
<1>2. ASSUME Inv, NEW p \in Procs, NEW k \in Answers, FinishCheck(p, k), Over(p)
      PROVE  WasTrue(p)
  <2>1. stage[p] = "check" /\ RunReturns(p, k) /\ Local(p) /\ req[p].op = "delete"
    BY <1>2 DEF FinishCheck, Inv, Local, Shape
  <2>2. Verdict(p, k) # OK /\ result'[p] = Verdict(p, k)
    BY <1>2 DEF FinishCheck, Ends, Over, Inv, TypeOK
  <2>3. result'[p] = "not_found" => k = "not_found"
    BY <2>2 DEF Verdict
  <2>4. k = "not_found" => Told(p, "not_found")
    BY <1>2, <2>1, Returning DEF OK
  <2>5. result'[p] = "not_found" => Absent \in held[p]
    BY <2>1, <2>3, <2>4 DEF Local, GoneFits
  <2> QED BY <2>1, <2>2, <2>5
<1>3. ASSUME Inv, [Next]_vars, NEW p \in Procs, Over(p) PROVE WasTrue(p)
  <2>1. Next
    BY <1>3 DEF Over, vars
  <2> QED BY <1>1, <1>2, <1>3, <2>1, OverIsAnEnd
<1>4. Inv /\ [Next]_vars =>
        [\A p \in Procs : Over(p) =>
         LET op == req[p].op
             k == result'[p]
             there == held[p] \ {Absent}
         IN  /\ op = "get" /\ k = OK => got[p] \in there
             /\ op \in {"get", "put"} /\ k = OK => seen[p] \in {o.v : o \in there} \cup {0}
             /\ op = "head" /\ k = OK => seen[p] \in {o.v : o \in there}
             /\ k = "not_found" \/ (op = "delete" /\ k = OK) => Absent \in held[p]
             /\ op = "delete" /\ req[p].strict /\ k = OK => there # {}
             /\ op \in {"copy", "put"} /\ k = OK =>
                    effect[p] \in {o.body : o \in there}
             /\ op = "put" /\ k = OK /\ tries[p] = 1 => effect[p] = req[p].body]_vars
  BY <1>3
<1> QED BY <1>4, Invariance, PTL DEF Spec, AnswersWereTrue

\* blobstore.go, policy.go: no interleaving, retry or delay makes a Delete remove the
\* version that its own head found too young.
THEOREM CheckedStaysKept == Spec => CheckedVersionKept
<1>1. ASSUME Inv, NEW p \in Procs, Sending(p), Wire(p) = "DELETE", Retention
      PROVE  seen[p] \notin young
  <2>1. stage[p] = "run" /\ req[p].op = "delete"
    BY <1>1, WireFits DEF Wire
  <2> QED BY <1>1, <2>1 DEF Inv, Local, CheckFits
<1>2. Inv /\ [Next]_vars =>
        [\A p \in Procs :
           Sending(p) /\ Wire(p) = "DELETE" /\ Retention /\ step'[p] = "replied"
           /\ object[req[p].key] # Absent /\ object'[req[p].key] = Absent
           => object[req[p].key].v # seen[p] \/ seen[p] \notin young]_vars
  BY <1>1
<1> QED BY <1>2, Invariance, PTL DEF Spec, CheckedVersionKept

-----------------------------------------------------------------------------
(* Termination: every step of a call costs it some of StepsLeft.           *)

\* Nothing happens to the call of p.
Still(p) == /\ stage'[p] = stage[p] /\ phase'[p] = phase[p]
             /\ step'[p] = step[p] /\ tries'[p] = tries[p]

\* The ways the call of p goes on: inside an attempt, into the next one, from Delete's
\* head to the delete, or to its end.
GoesOn(p) ==
    \/ /\ stage'[p] = stage[p] /\ tries'[p] = tries[p]
       /\ \/ step[p] = "entry" /\ step'[p] \in {"first", "replied"}
          \/ step[p] = "first" /\ step'[p] \in {"second", "replied"}
          \/ step[p] = "second" /\ step'[p] = "replied"
          \/ step[p] = "replied" /\ step'[p] = "none"
    \/ /\ stage'[p] = stage[p] /\ tries'[p] = tries[p] + 1
       /\ step[p] = "none" /\ step'[p] = "entry"
    \/ /\ stage[p] = "check" /\ stage'[p] = "run" /\ tries'[p] = 0
       /\ step[p] = "none" /\ step'[p] = "none"
    \/ stage'[p] = "free"

\* StepsLeft where the calls are, by its cases.
LEMMA StepsLeftValues ==
    ASSUME NEW p \in Procs, TypeOK, stage[p] # "free"
    PROVE  LET n == MaxAttempts - tries[p]
               more == IF stage[p] = "check" THEN 5 * MaxAttempts + 1 ELSE 0
           IN  /\ n \in Nat
               /\ step[p] = "none" => StepsLeft(p) = 5 * n + 1 + more
               /\ step[p] = "entry" => StepsLeft(p) = 5 * n + 5 + more
               /\ step[p] = "first" => StepsLeft(p) = 5 * n + 4 + more
               /\ step[p] = "second" => StepsLeft(p) = 5 * n + 3 + more
               /\ step[p] = "replied" => StepsLeft(p) = 5 * n + 2 + more
<1>1. /\ tries[p] \in 0..MaxAttempts /\ MaxAttempts \in Nat
      /\ stage[p] \in {"free", "check", "run"}
      /\ step[p] \in {"none", "entry", "first", "second", "replied"}
  BY Numbers DEF TypeOK
<1> QED BY <1>1 DEF StepsLeft

\* Going on leaves the call less to do.
LEMMA GoingOnCosts ==
    ASSUME Inv, TypeOK', NEW p \in Procs, stage[p] # "free", GoesOn(p)
    PROVE  StepsLeft(p)' < StepsLeft(p) /\ StepsLeft(p)' \in Nat
<1> DEFINE n == MaxAttempts - tries[p]
           m == MaxAttempts - tries'[p]
           more == IF stage[p] = "check" THEN 5 * MaxAttempts + 1 ELSE 0
           less == IF stage'[p] = "check" THEN 5 * MaxAttempts + 1 ELSE 0
           here == StepsLeft(p)
           there == StepsLeft(p)'
<1>1. /\ n \in Nat
      /\ step[p] = "none" => here = 5 * n + 1 + more
      /\ step[p] = "entry" => here = 5 * n + 5 + more
      /\ step[p] = "first" => here = 5 * n + 4 + more
      /\ step[p] = "second" => here = 5 * n + 3 + more
      /\ step[p] = "replied" => here = 5 * n + 2 + more
  BY StepsLeftValues DEF Inv
<1>2. /\ tries[p] \in Nat /\ MaxAttempts \in Nat /\ tries'[p] \in 0..MaxAttempts
      /\ stage'[p] \in {"free", "check", "run"}
      /\ step'[p] \in {"none", "entry", "first", "second", "replied"}
  BY Numbers DEF Inv, TypeOK
<1>3. /\ m \in Nat
      /\ stage'[p] = "free" => there = 0
      /\ stage'[p] # "free" =>
            /\ step'[p] = "none" => there = 5 * m + 1 + less
            /\ step'[p] = "entry" => there = 5 * m + 5 + less
            /\ step'[p] = "first" => there = 5 * m + 4 + less
            /\ step'[p] = "second" => there = 5 * m + 3 + less
            /\ step'[p] = "replied" => there = 5 * m + 2 + less
  BY <1>2 DEF StepsLeft
<1>4. more \in Nat /\ less \in Nat /\ (stage'[p] = stage[p] => less = more)
  BY <1>2
<1>5. step[p] \in {"none", "entry", "first", "second", "replied"}
  BY DEF Inv, TypeOK
<1> HIDE DEF here, there
<1>6. CASE stage'[p] = "free"
  BY <1>1, <1>3, <1>4, <1>5, <1>6 DEF here, there
<1>7. CASE stage'[p] = stage[p] /\ tries'[p] = tries[p] + 1
           /\ step[p] = "none" /\ step'[p] = "entry"
  <2>1. n = m + 1
    BY <1>2, <1>7
  <2> HIDE DEF n, m, more, less
  <2> QED BY <1>1, <1>3, <1>4, <1>7, <2>1 DEF here, there
<1>8. CASE /\ stage[p] = "check" /\ stage'[p] = "run" /\ tries'[p] = 0
           /\ step[p] = "none" /\ step'[p] = "none"
  <2>1. m = MaxAttempts /\ more = 5 * MaxAttempts + 1 /\ less = 0
    BY <1>2, <1>8
  <2> HIDE DEF n, m, more, less
  <2> QED BY <1>1, <1>2, <1>3, <1>8, <2>1 DEF here, there
<1>9. CASE /\ stage'[p] = stage[p] /\ tries'[p] = tries[p]
           /\ \/ step[p] = "entry" /\ step'[p] \in {"first", "replied"}
              \/ step[p] = "first" /\ step'[p] \in {"second", "replied"}
              \/ step[p] = "second" /\ step'[p] = "replied"
              \/ step[p] = "replied" /\ step'[p] = "none"
  <2>1. n = m
    BY <1>9
  <2> HIDE DEF n, m, more, less
  <2> QED BY <1>1, <1>3, <1>4, <1>9, <2>1 DEF here, there
<1> QED BY <1>6, <1>7, <1>8, <1>9 DEF GoesOn

\* A step of Next is a step of the call, or leaves it where it was.
LEMMA OwnStepOrNone ==
    ASSUME Inv, [Next]_vars, NEW p \in Procs, stage[p] # "free"
    PROVE  GoesOn(p) \/ Still(p)
<1>1. /\ stage \in [Procs -> {"free", "check", "run"}] /\ tries \in [Procs -> 0..MaxAttempts]
      /\ phase \in [Procs -> {"idle", "ready", "calling"}]
      /\ step \in [Procs -> {"none", "entry", "first", "second", "replied"}]
      /\ \A q \in Procs : Shape(q)
  BY DEF Inv, TypeOK, Local
<1>2. ASSUME NEW q \in Procs, NEW r \in work[q], Begin(q, r) PROVE Still(p)
  BY <1>1, <1>2 DEF Begin, Run!Start, Still
<1>3. ASSUME NEW q \in Procs, CtxEnds(q) PROVE Still(p)
  BY <1>3 DEF CtxEnds, Run!CtxEnds, Still
<1>4. ASSUME NEW q \in Procs, Invoke(q) PROVE GoesOn(p) \/ Still(p)
  BY <1>1, <1>4 DEF Invoke, Run!Invoke, Shape, GoesOn, Still
<1>5. ASSUME NEW q \in Procs, AdapterEntry(q) PROVE GoesOn(p) \/ Still(p)
  BY <1>1, <1>5 DEF AdapterEntry, runVars, GoesOn, Still
<1>6. ASSUME NEW q \in Procs, NEW k, Sending(q), Continue(q, k) PROVE GoesOn(p) \/ Still(p)
  <2>1. /\ step' = [step EXCEPT ![q] = step'[q]] /\ UNCHANGED <<stage, phase, tries>>
        /\ step[q] \in {"first", "second"} /\ step'[q] \in {"second", "replied"}
        /\ step'[q] = "second" => step[q] = "first"
    BY <1>6, Continues DEF Sending
  <2> QED BY <1>1, <2>1 DEF GoesOn, Still
<1>7. ASSUME NEW q \in Procs, FnReturns(q) PROVE GoesOn(p) \/ Still(p)
  BY <1>1, <1>7 DEF FnReturns, Run!Answer, GoesOn, Still
<1>8. ASSUME NEW q \in Procs, NEW k \in Answers, FinishCheck(q, k) \/ Finish(q, k)
      PROVE  GoesOn(p) \/ Still(p)
  <2>1. /\ step[q] = "none" /\ tries' = [tries EXCEPT ![q] = 0] /\ UNCHANGED step
    BY <1>8, Returning DEF FinishCheck, Finish
  <2>2. \/ /\ stage[q] = "check" /\ stage' = [stage EXCEPT ![q] = "run"] /\ UNCHANGED phase
        \/ /\ stage' = [stage EXCEPT ![q] = "free"] /\ phase' = [phase EXCEPT ![q] = "idle"]
    BY <1>8 DEF FinishCheck, Finish, Ends
  <2> QED BY <1>1, <2>1, <2>2 DEF GoesOn, Still
<1>9. CASE (\E w \in late : LateRequest(w)) \/ (\E v \in young : Ages(v)) \/ Close
           \/ UNCHANGED vars
  BY <1>9 DEF LateRequest, Ages, Close, vars, runVars, Still
<1>10. ASSUME NEW q \in Procs, \/ Serve(q) \/ LoseRequest(q) \/ LoseAnswer(q) \/ GiveUp(q)
                               \/ \E k \in {"not_found", "auth"} : Refuse(q, k)
       PROVE  \E k : Sending(q) /\ Continue(q, k)
  BY <1>10 DEF Serve, LoseRequest, LoseAnswer, GiveUp, Refuse
<1> QED BY <1>2, <1>3, <1>4, <1>5, <1>6, <1>7, <1>8, <1>9, <1>10 DEF Next

\* blobstore.go, retry.go: for any number of callers, keys and attempts, whatever the
\* object store answers or loses, a call returns after 10 * MaxAttempts + 2 of its own
\* steps at most, Delete's head and every retry included.
THEOREM CallsTerminate == Spec => CallsRunDown
<1>1. Inv /\ [Next]_vars =>
        [\A p \in Procs :
         stage[p] # "free" =>
            \/ <<stage[p], phase[p], step[p], tries[p]>>' =
                  <<stage[p], phase[p], step[p], tries[p]>>
            \/ StepsLeft(p)' \in 0..(StepsLeft(p) - 1)]_vars
  <2> SUFFICES ASSUME Inv, [Next]_vars, NEW p \in Procs, stage[p] # "free"
               PROVE  Still(p) \/ StepsLeft(p)' \in 0..(StepsLeft(p) - 1)
    BY DEF Still
  <2>1. StepsLeft(p) \in Nat
    <3>1. /\ tries[p] \in 0..MaxAttempts /\ MaxAttempts \in Nat
          /\ stage[p] \in {"free", "check", "run"}
      BY Numbers DEF Inv, TypeOK
    <3> QED BY <3>1 DEF StepsLeft
  <2>2. CASE GoesOn(p)
    <3>1. TypeOK'
      BY NextInv DEF Inv
    <3>2. StepsLeft(p)' < StepsLeft(p) /\ StepsLeft(p)' \in Nat
      BY <2>2, <3>1, GoingOnCosts
    <3> QED BY <2>1, <3>2
  <2> QED BY <2>2, OwnStepOrNone
<1> QED BY Invariance, <1>1, PTL DEF Spec, CallsRunDown
=============================================================================
