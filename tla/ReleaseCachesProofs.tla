------------------------ MODULE ReleaseCachesProofs ------------------------
(* What the caches of release files promise, for any number of requests,   *)
(* releases and files.                                                     *)
EXTENDS ReleaseCaches, CollectionLemmas

Answers == {Status(s) : s \in {"none", "unavailable", "missing", "failed"}}
             \cup {Body(k, p) : k \in Keys, p \in Paths}

\* The part of TypeOK about requests.
RequestsOK ==
  /\ active \in Keys \cup {NoKey}
  /\ pc \in [Requests -> {"idle", "lookup", "read", "store"}]
  /\ kind \in [Requests -> {"style", "asset"}]
  /\ held \in [Requests -> Keys \cup {NoKey}]
  /\ names \in [Requests -> Seq(Paths)] /\ asked \in [Requests -> Seq(Paths)]
  /\ answer \in [Requests -> Answers]

\* A working request holds a release and has a file left to try.
Working ==
  \A q \in Requests : pc[q] # "idle" => held[q] \in Keys /\ names[q] # <<>>

\* What is in a cache is a file of the release the cache belongs to.
CachesOK ==
  /\ OneRelease
  /\ DOMAIN rendered \subseteq Paths /\ DOMAIN assets \subseteq Paths
  /\ \A p \in DOMAIN rendered : rendered[p] \in Keys /\ p \in Has[rendered[p]]
  /\ \A p \in DOMAIN assets : assets[p] \in Keys /\ p \in Has[assets[p]]

WithinLimit == assetBytes \in Nat /\ assetBytes <= Limit

\* The fonts a working request has gone past are not in its release; the one it is about to
\* store is.
Missing(q, n) ==
  /\ names[q] = SubSeq(asked[q], n + 1, Len(asked[q]))
  /\ \A j \in 1..n : asked[q][j] \notin Has[held[q]]

InOrder ==
  \A q \in Requests :
    /\ pc[q] # "idle" => \E n \in 0..(Len(asked[q]) - 1) : Missing(q, n)
    /\ pc[q] = "store" => Head(names[q]) \in Has[held[q]]

\* The part of the invariant about requests, and the part about caches.
RequestInv == RequestsOK /\ Working /\ ServesOwnRelease /\ InOrder /\ FirstFontWins
CacheInv   == RequestInv /\ CachesOK /\ WithinLimit

\* An answer that request q may give.
Right(q, a) ==
  /\ a \in Answers
  /\ a.status = "ok" =>
       /\ a.key = held[q]
       /\ \E i \in DOMAIN asked[q] :
            /\ asked[q][i] \in Has[held[q]] /\ a.path = <<asked[q][i]>>
            /\ \A j \in 1..(i - 1) : asked[q][j] \notin Has[held[q]]
  /\ a.status = "missing" => \A i \in DOMAIN asked[q] : asked[q][i] \notin Has[held[q]]

LEMMA InitInv == Init => CacheInv
  BY CachesAssumption
  DEF Init, CacheInv, RequestInv, RequestsOK, Working, ServesOwnRelease, InOrder, FirstFontWins,
      CachesOK, OneRelease, WithinLimit, Nothing, Answers, Status

\* Fields of answers.
LEMMA AnswerFields ==
  /\ \A s : Status(s).status = s
  /\ \A k, p : Body(k, p).status = "ok" /\ Body(k, p).key = k /\ Body(k, p).path = <<p>>
  BY DEF Status, Body

\* The first font that is left, if the release has it, is the right answer.
LEMMA HeadIsRight ==
  ASSUME RequestInv, NEW q \in Requests, pc[q] # "idle", Head(names[q]) \in Has[held[q]]
  PROVE  /\ Head(names[q]) \in Paths
         /\ Right(q, Body(held[q], Head(names[q])))
<1>1. names[q] \in Seq(Paths) /\ names[q] # <<>> /\ held[q] \in Keys /\ asked[q] \in Seq(Paths)
  BY DEF RequestInv, RequestsOK, Working
<1>2. Head(names[q]) \in Paths
  BY <1>1
<1>3. PICK n \in 0..(Len(asked[q]) - 1) : Missing(q, n)
  BY DEF RequestInv, InOrder
<1>4. Head(names[q]) = asked[q][n + 1] /\ n + 1 \in DOMAIN asked[q]
  BY <1>1, <1>3 DEF Missing
<1>5. Body(held[q], Head(names[q])) \in Answers
  BY <1>1, <1>2 DEF Answers
<1>6. \A j \in 1..(n + 1 - 1) : asked[q][j] \notin Has[held[q]]
  BY <1>3 DEF Missing
<1>7. "ok" # "missing"
  OBVIOUS
<1> QED BY <1>2, <1>4, <1>5, <1>6, <1>7, AnswerFields DEF Right

\* Giving a right answer, with which the request ends.
LEMMA RespondStep ==
  ASSUME RequestInv, NEW q \in Requests, NEW a, Right(q, a), Respond(q, a), UNCHANGED active
  PROVE  RequestInv'
<1> USE DEF RequestInv, Respond
<1>1. /\ answer \in [Requests -> Answers] /\ pc \in [Requests -> {"idle", "lookup", "read", "store"}]
      /\ a \in Answers
  BY DEF RequestsOK, Right
<1>2. \A r \in Requests : /\ answer'[r] = IF r = q THEN a ELSE answer[r]
                          /\ pc'[r] = IF r = q THEN "idle" ELSE pc[r]
  BY <1>1
<1>3. RequestsOK' BY <1>1 DEF RequestsOK
<1>4. Working' BY <1>2 DEF Working
<1>5. ServesOwnRelease' BY <1>2 DEF ServesOwnRelease, Right
<1>6. InOrder' BY <1>2 DEF InOrder, Missing
<1>7. FirstFontWins' BY <1>2 DEF FirstFontWins, Right
<1> QED BY <1>3, <1>4, <1>5, <1>6, <1>7

\* Going on to read, or to store a file that the release has.
LEMMA GotoStep ==
  ASSUME RequestInv, NEW q \in Requests, NEW l \in {"read", "store"}, pc[q] # "idle",
         l = "store" => Head(names[q]) \in Has[held[q]], Goto(q, l), UNCHANGED active
  PROVE  RequestInv'
<1> USE DEF RequestInv, Goto
<1>1. pc \in [Requests -> {"idle", "lookup", "read", "store"}]
  BY DEF RequestsOK
<1>2. \A r \in Requests : pc'[r] = IF r = q THEN l ELSE pc[r]
  BY <1>1
<1>3. RequestsOK' BY <1>1 DEF RequestsOK
<1>4. Working' BY <1>2 DEF Working
<1>5. ServesOwnRelease' BY DEF ServesOwnRelease
<1>6. InOrder' BY <1>2 DEF InOrder, Missing
<1>7. FirstFontWins' BY DEF FirstFontWins
<1> QED BY <1>3, <1>4, <1>5, <1>6, <1>7

\* Going past a file that the release does not have.
LEMMA TryNextStep ==
  ASSUME RequestInv, NEW q \in Requests, pc[q] = "read", Head(names[q]) \notin Has[held[q]],
         TryNext(q), UNCHANGED active
  PROVE  RequestInv'
<1>1. /\ names[q] \in Seq(Paths) /\ names[q] # <<>> /\ held[q] \in Keys /\ asked[q] \in Seq(Paths)
      /\ pc \in [Requests -> {"idle", "lookup", "read", "store"}] /\ names \in [Requests -> Seq(Paths)]
  BY DEF RequestInv, RequestsOK, Working
<1>2. PICK n \in 0..(Len(asked[q]) - 1) : Missing(q, n)
  BY DEF RequestInv, InOrder
<1>3. Head(names[q]) = asked[q][n + 1] /\ Len(names[q]) = Len(asked[q]) - n
  BY <1>1, <1>2 DEF Missing
<1>4. \A j \in 1..(n + 1) : asked[q][j] \notin Has[held[q]]
  BY <1>2, <1>3 DEF Missing
<1>5. CASE Len(names[q]) = 1
  <2>1. Respond(q, Status("missing"))
    BY <1>5 DEF TryNext
  <2>2. DOMAIN asked[q] = 1..(n + 1)
    <3>1. DOMAIN asked[q] = 1..Len(asked[q]) /\ Len(asked[q]) \in Nat
      BY <1>1
    <3>2. Len(asked[q]) = n + 1
      <4>1. Len(asked[q]) - n = 1
        BY <1>3, <1>5
      <4>2. n \in Int
        BY <3>1
      <4> QED BY <3>1, <4>1, <4>2
    <3> QED BY <3>1, <3>2
  <2>3. Status("missing") \in Answers
    BY DEF Answers
  <2>4. Right(q, Status("missing"))
    BY <2>2, <2>3, <1>4, AnswerFields DEF Right
  <2> QED BY <2>1, <2>4, RespondStep
<1>6. CASE Len(names[q]) # 1
  <2>1. /\ names' = [names EXCEPT ![q] = Tail(@)] /\ pc' = [pc EXCEPT ![q] = "lookup"]
        /\ UNCHANGED <<kind, held, asked, answer>>
    BY <1>6 DEF TryNext
  <2>2. Tail(names[q]) \in Seq(Paths) /\ Tail(names[q]) # <<>>
    <3>1. Len(names[q]) \in Nat /\ Len(names[q]) > 1
      <4>1. Len(asked[q]) \in Nat /\ Len(names[q]) \in Nat
        BY <1>1
      <4> QED BY <1>2, <1>3, <1>6, <4>1
    <3>2. Tail(names[q]) \in Seq(Paths) /\ Len(Tail(names[q])) = Len(names[q]) - 1
      BY <1>1
    <3>3. Len(Tail(names[q])) # 0
      BY <1>1, <3>1, <3>2
    <3>4. Len(<<>>) = 0
      OBVIOUS
    <3> QED BY <3>2, <3>3, <3>4
  <2>3. Tail(names[q]) = SubSeq(asked[q], n + 1 + 1, Len(asked[q])) /\ n + 1 \in 0..(Len(asked[q]) - 1)
    BY <1>1, <1>2, <1>3, <1>6 DEF Missing
  <2>4. \A r \in Requests : /\ names'[r] = IF r = q THEN Tail(names[q]) ELSE names[r]
                            /\ pc'[r] = IF r = q THEN "lookup" ELSE pc[r]
    BY <1>1, <2>1
  <2>5. RequestsOK' BY <1>1, <2>1, <2>2 DEF RequestInv, RequestsOK
  <2>6. Working' BY <1>1, <2>1, <2>2, <2>4 DEF RequestInv, Working
  <2>7. ServesOwnRelease' BY <2>1 DEF RequestInv, ServesOwnRelease
  <2>8. InOrder'
    <3>1. Missing(q, n + 1)'
      <4>1. names'[q] = SubSeq(asked'[q], n + 1 + 1, Len(asked'[q]))
        BY <2>1, <2>3, <2>4
      <4>2. \A j \in 1..(n + 1) : asked'[q][j] \notin Has[held'[q]]
        BY <1>4, <2>1
      <4> QED BY <4>1, <4>2 DEF Missing
    <3>2. \A r \in Requests \ {q} : \A i \in Nat : Missing(r, i) => Missing(r, i)'
      BY <2>1, <2>4 DEF Missing
    <3> QED BY <2>1, <2>3, <2>4, <3>1, <3>2 DEF RequestInv, InOrder
  <2>9. FirstFontWins' BY <2>1 DEF RequestInv, FirstFontWins
  <2> QED BY <2>5, <2>6, <2>7, <2>8, <2>9 DEF RequestInv
<1> QED BY <1>5, <1>6

\* A request takes the active release; its last answer is forgotten.
LEMMA AcquireStep ==
  ASSUME CacheInv, NEW q \in Requests, Acquire(q)
  PROVE  RequestInv'
<1> USE CachesAssumption DEF CacheInv, RequestInv
<1>1. PICK w \in Seq(Paths), k \in {"style", "asset"} :
        /\ w # <<>>
        /\ kind' = [kind EXCEPT ![q] = k]
        /\ names' = [names EXCEPT ![q] = w] /\ asked' = [asked EXCEPT ![q] = w]
  <2>1. PICK s \in [kind : {"style"}, want : {<<p>> : p \in Styles}]
                   \cup [kind : {"asset"}, want : Stacks] :
          /\ kind' = [kind EXCEPT ![q] = s.kind]
          /\ names' = [names EXCEPT ![q] = s.want] /\ asked' = [asked EXCEPT ![q] = s.want]
    BY DEF Acquire
  <2>2. s.kind \in {"style", "asset"} /\ s.want \in Seq(Paths) /\ s.want # <<>>
    <3>1. CASE s \in [kind : {"style"}, want : {<<p>> : p \in Styles}]
      <4>1. s.kind = "style" /\ \E p \in Styles : s.want = <<p>>
        BY <3>1
      <4> QED BY <4>1
    <3>2. CASE s \in [kind : {"asset"}, want : Stacks]
      BY <3>2
    <3> QED BY <2>1, <3>1, <3>2
  <2> QED BY <2>1, <2>2
<1>2. PICK a \in {Status("none"), Status("unavailable")} :
        /\ answer' = [answer EXCEPT ![q] = a]
        /\ a = Status("none") => active # NoKey /\ pc' = [pc EXCEPT ![q] = "lookup"]
        /\ a # Status("none") => UNCHANGED pc
  <2>1. Status("none") # Status("unavailable")
    BY AnswerFields
  <2> QED BY <2>1 DEF Acquire, Loaded
<1>3. pc[q] = "idle" /\ held' = [held EXCEPT ![q] = active] /\ UNCHANGED active
  BY DEF Acquire
<1>4. /\ a \in Answers /\ a.status # "ok" /\ a.status # "missing"
  BY AnswerFields DEF Answers
<1>5. RequestsOK'
  BY <1>1, <1>2, <1>3, <1>4 DEF RequestsOK
<1>6. \A r \in Requests :
        /\ names'[r] = IF r = q THEN w ELSE names[r]
        /\ asked'[r] = IF r = q THEN w ELSE asked[r]
        /\ held'[r] = IF r = q THEN active ELSE held[r]
        /\ answer'[r] = IF r = q THEN a ELSE answer[r]
        /\ r # q => pc'[r] = pc[r]
  BY <1>1, <1>2, <1>3 DEF RequestsOK
<1>7. pc'[q] = "idle" \/ (pc'[q] = "lookup" /\ active \in Keys)
  <2>1. active \in Keys \cup {NoKey} /\ pc \in [Requests -> {"idle", "lookup", "read", "store"}]
    BY DEF RequestsOK
  <2>2. CASE a = Status("none")
    BY <1>2, <2>1, <2>2
  <2>3. CASE a # Status("none")
    <3>1. pc' = pc
      BY <1>2, <2>3
    <3> QED BY <1>3, <3>1
  <2> QED BY <2>2, <2>3
<1>8. Working'
  BY <1>1, <1>6, <1>7 DEF Working
<1>9. ServesOwnRelease'
  BY <1>4, <1>6 DEF ServesOwnRelease
<1>10. InOrder'
  <2>1. Missing(q, 0)'
    <3>1. w = SubSeq(w, 0 + 1, Len(w))
      BY <1>1
    <3> QED BY <1>6, <3>1 DEF Missing
  <2>2. 0 \in 0..(Len(asked'[q]) - 1)
    <3>1. Len(w) \in Nat /\ Len(w) > 0
      BY <1>1
    <3> QED BY <1>6, <3>1
  <2>3. \A r \in Requests \ {q} : \A i \in Nat : Missing(r, i) => Missing(r, i)'
    BY <1>6 DEF Missing
  <2>4. ASSUME NEW r \in Requests, r # q
        PROVE  /\ pc'[r] # "idle" => \E n \in 0..(Len(asked'[r]) - 1) : Missing(r, n)'
               /\ pc'[r] = "store" => Head(names'[r]) \in Has[held'[r]]
    BY <1>6, <2>3, <2>4 DEF InOrder
  <2> QED BY <1>7, <2>1, <2>2, <2>4 DEF InOrder
<1>11. FirstFontWins'
  <2>1. \A r \in Requests \ {q} : UNCHANGED <<names[r], asked[r], held[r], answer[r]>>
    BY <1>6
  <2>2. answer'[q].status # "ok" /\ answer'[q].status # "missing"
    BY <1>4, <1>6
  <2> QED BY <2>1, <2>2 DEF FirstFontWins
<1> QED BY <1>5, <1>8, <1>9, <1>10, <1>11

LEMMA StepInv == CacheInv /\ [Next]_vars => CacheInv'
<1> SUFFICES ASSUME CacheInv, [Next]_vars PROVE CacheInv'
  OBVIOUS
<1>0. RequestInv /\ CachesOK /\ WithinLimit
  BY DEF CacheInv
<1>1. ASSUME UNCHANGED <<renderVars, assetVars>> PROVE (CachesOK /\ WithinLimit)'
  BY <1>0, <1>1 DEF CachesOK, OneRelease, WithinLimit, renderVars, assetVars
<1>2. CASE UNCHANGED vars
  <2>1. RequestInv'
    BY <1>0, <1>2 DEF vars, reqVars, RequestInv, RequestsOK, Working, ServesOwnRelease,
                      InOrder, Missing, FirstFontWins
  <2> QED BY <1>1, <1>2, <2>1 DEF vars, CacheInv
<1>3. CASE Switch
  <2>1. RequestInv'
    BY ZenonT(60), <1>0, <1>3 DEF Switch, reqVars, RequestInv, RequestsOK, Working, ServesOwnRelease,
                      InOrder, Missing, FirstFontWins
  <2> QED BY <1>1, <1>3, <2>1 DEF Switch, CacheInv
<1>4. ASSUME NEW q \in Requests, Acquire(q) PROVE CacheInv'
  BY <1>1, <1>4, AcquireStep DEF Acquire, CacheInv
<1>5. ASSUME NEW q \in Requests, LookupStyle(q) PROVE CacheInv'
  <2>1. pc[q] = "lookup" /\ UNCHANGED <<active, renderVars, assetVars>>
    BY <1>5 DEF LookupStyle
  <2>2. CASE IsRendered(held[q], Head(names[q]))
    <3>1. rendered[Head(names[q])] = held[q] /\ Head(names[q]) \in Has[held[q]]
      BY <1>0, <2>2 DEF IsRendered, CachesOK, OneRelease
    <3>2. Respond(q, Body(held[q], Head(names[q])))
      BY <1>5, <2>2, <3>1 DEF LookupStyle
    <3>3. Right(q, Body(held[q], Head(names[q])))
      BY <1>0, <2>1, <3>1, HeadIsRight
    <3> QED BY <1>0, <1>1, <2>1, <3>2, <3>3, RespondStep DEF CacheInv
  <2>3. CASE ~IsRendered(held[q], Head(names[q]))
    <3>1. Goto(q, "read")
      BY <1>5, <2>3 DEF LookupStyle
    <3> QED BY <1>0, <1>1, <2>1, <3>1, GotoStep DEF CacheInv
  <2> QED BY <2>2, <2>3
<1>6. ASSUME NEW q \in Requests, LookupAsset(q) PROVE CacheInv'
  <2>1. pc[q] = "lookup" /\ UNCHANGED <<active, renderVars>>
    BY <1>6 DEF LookupAsset
  <2>2. IF assetKey # held[q]
        THEN assetKey' = held[q] /\ assetBytes' = 0 /\ assets' = Nothing
        ELSE UNCHANGED <<assetKey, assetBytes, assets>>
    BY <1>6 DEF LookupAsset, assetVars
  <2>3. (CachesOK /\ WithinLimit)' /\ assetKey' = held[q]
    BY <1>0, <2>1, <2>2, CachesAssumption
    DEF CachesOK, OneRelease, WithinLimit, renderVars, Nothing
  <2>4. CASE Head(names[q]) \in DOMAIN assets'
    <3>1. assets'[Head(names[q])] = held[q] /\ Head(names[q]) \in Has[held[q]]
      BY <2>3, <2>4 DEF CachesOK, OneRelease
    <3>2. Respond(q, Body(held[q], Head(names[q])))
      BY <1>6, <2>4, <3>1 DEF LookupAsset
    <3>3. Right(q, Body(held[q], Head(names[q])))
      BY <1>0, <2>1, <3>1, HeadIsRight
    <3> QED BY <1>0, <2>1, <2>3, <3>2, <3>3, RespondStep DEF CacheInv
  <2>5. CASE Head(names[q]) \notin DOMAIN assets'
    <3>1. Goto(q, "read")
      BY <1>6, <2>5 DEF LookupAsset
    <3> QED BY <1>0, <2>1, <2>3, <3>1, GotoStep DEF CacheInv
  <2> QED BY <2>4, <2>5
<1>7. ASSUME NEW q \in Requests, Read(q) PROVE CacheInv'
  <2>1. pc[q] = "read" /\ UNCHANGED <<active, renderVars, assetVars>>
    BY <1>7 DEF Read
  <2>2. CASE Head(names[q]) \in Has[held[q]] /\ Goto(q, "store")
    BY <1>0, <1>1, <2>1, <2>2, GotoStep DEF CacheInv
  <2>3. CASE Head(names[q]) \notin Has[held[q]] /\ TryNext(q)
    BY <1>0, <1>1, <2>1, <2>3, TryNextStep DEF CacheInv
  <2>4. CASE GiveUp(q)
    <3>1. Right(q, Status("failed"))
      BY AnswerFields DEF Right, Answers
    <3> QED BY <1>0, <1>1, <2>1, <2>4, <3>1, RespondStep DEF CacheInv, GiveUp
  <2> QED BY <1>7, <2>2, <2>3, <2>4 DEF Read
<1>8. ASSUME NEW q \in Requests, pc[q] = "store"
      PROVE  /\ held[q] \in Keys /\ Head(names[q]) \in Paths /\ Head(names[q]) \in Has[held[q]]
             /\ Right(q, Body(held[q], Head(names[q])))
  <2>1. Head(names[q]) \in Has[held[q]] /\ held[q] \in Keys
    BY <1>0, <1>8 DEF RequestInv, InOrder, Working
  <2> QED BY <1>0, <1>8, <2>1, HeadIsRight
<1>9. ASSUME NEW q \in Requests, StoreStyle(q) PROVE CacheInv'
  <2>1. /\ pc[q] = "store" /\ renderKey' = held[q] /\ UNCHANGED <<active, assetVars>>
        /\ Respond(q, Body(held[q], Head(names[q])))
    BY <1>9 DEF StoreStyle
  <2>2. RequestInv'
    BY <1>0, <1>8, <2>1, RespondStep
  <2> DEFINE kept == IF renderKey = held[q] THEN rendered ELSE Nothing
  <2>3. rendered' = [x \in DOMAIN kept \cup {Head(names[q])} |->
                       IF x = Head(names[q]) THEN held[q] ELSE kept[x]]
    BY <1>9 DEF StoreStyle
  <2>4. \A x \in DOMAIN kept : kept[x] = held[q] /\ x \in Paths /\ x \in Has[held[q]]
    BY <1>0 DEF CachesOK, OneRelease, Nothing
  <2> HIDE DEF kept
  <2>5. /\ DOMAIN rendered' = DOMAIN kept \cup {Head(names[q])}
        /\ \A x \in DOMAIN rendered' : rendered'[x] = held[q] /\ x \in Paths /\ x \in Has[held[q]]
    BY <1>8, <2>1, <2>3, <2>4
  <2>6. (CachesOK /\ WithinLimit)'
    BY <1>0, <1>8, <2>1, <2>5 DEF CachesOK, OneRelease, WithinLimit, assetVars
  <2> QED BY <2>2, <2>6 DEF CacheInv
<1>10. ASSUME NEW q \in Requests, StoreAsset(q) PROVE CacheInv'
  <2>1. /\ pc[q] = "store" /\ UNCHANGED <<active, assetKey, renderVars>>
        /\ Respond(q, Body(held[q], Head(names[q])))
    BY <1>10 DEF StoreAsset
  <2>2. RequestInv'
    BY <1>0, <1>8, <2>1, RespondStep
  <2>3. CASE Fits(held[q], Head(names[q]))
    <3>1. /\ assets' = [x \in DOMAIN assets \cup {Head(names[q])} |->
                          IF x = Head(names[q]) THEN held[q] ELSE assets[x]]
          /\ assetBytes' = assetBytes + Size[held[q]][Head(names[q])]
      BY <1>10, <2>3 DEF StoreAsset
    <3>2. /\ \A x \in DOMAIN assets' : assets'[x] = IF x = Head(names[q]) THEN held[q] ELSE assets[x]
          /\ DOMAIN assets' = DOMAIN assets \cup {Head(names[q])} /\ assetKey' = held[q]
      BY <2>1, <2>3, <3>1 DEF Fits
    <3>3. CachesOK'
      BY <1>0, <1>8, <2>1, <2>3, <3>2 DEF CachesOK, OneRelease, Fits, renderVars
    <3>4. WithinLimit'
      <4>1. Size[held[q]][Head(names[q])] \in Nat
        BY <1>8, <2>1, CachesAssumption
      <4> QED BY <1>0, <2>3, <3>1, <4>1, CachesAssumption DEF WithinLimit, Fits
    <3> QED BY <2>2, <3>3, <3>4 DEF CacheInv
  <2>4. CASE ~Fits(held[q], Head(names[q]))
    <3>1. UNCHANGED <<renderVars, assetVars>>
      BY <1>10, <2>1, <2>4 DEF StoreAsset, assetVars
    <3> QED BY <1>1, <2>2, <3>1 DEF CacheInv
  <2> QED BY <2>3, <2>4
<1> QED BY <1>2, <1>3, <1>4, <1>5, <1>6, <1>7, <1>9, <1>10 DEF Next

THEOREM CacheInvariant == Spec => []CacheInv
  BY InitInv, StepInv, PTL DEF Spec

(* A request is answered from the release it acquired.                     *)
THEOREM OwnReleaseOnly == Spec => []ServesOwnRelease
<1>1. CacheInv => ServesOwnRelease
  BY DEF CacheInv, RequestInv
<1> QED BY <1>1, CacheInvariant, PTL

(* Neither cache ever mixes the files of two releases.                     *)
THEOREM CachesDoNotMix == Spec => []OneRelease
<1>1. CacheInv => OneRelease
  BY DEF CacheInv, CachesOK
<1> QED BY <1>1, CacheInvariant, PTL

(* A font stack is served from its first font, and a 404 means there is none. *)
THEOREM FontOrder == Spec => []FirstFontWins
<1>1. CacheInv => FirstFontWins
  BY DEF CacheInv, RequestInv
<1> QED BY <1>1, CacheInvariant, PTL

----------------------------------------------------------------------------
(* The bytes that are counted.                                             *)

Sum(kept) == MapThenSumSet(LAMBDA p : Size[kept[p]][p], DOMAIN kept)

\* The files of one release weigh what that release says.
LEMMA OneReleaseSum ==
  ASSUME NEW kept, IsFiniteSet(DOMAIN kept), NEW k, \A p \in DOMAIN kept : kept[p] = k
  PROVE  Sum(kept) = Total(Size[k], DOMAIN kept)
<1> DEFINE S == DOMAIN kept
           W(g) == [s \in SUBSET S |-> IF s = {} THEN 0 ELSE Size[kept[One(s)]][One(s)] + g[s \ {One(s)}]]
           iter == CHOOSE g : g = W(g)
<1>1. ASSUME NEW g PROVE W(g) = [s \in SUBSET S |-> Turn(Size[k], g, s)]
  <2>1. ASSUME NEW s \in SUBSET S, s # {} PROVE Size[kept[One(s)]][One(s)] = Size[k][One(s)]
    BY <2>1, OneIsIn
  <2> QED
    BY <2>1 DEF Turn
<1>2. PICK g : g = W(g)
  <2>1. PICK g : Solves(Size[k], SUBSET S, g)
    BY RecursionHasSolution
  <2> HIDE DEF W
  <2> QED
    BY <1>1, <2>1 DEF Solves
<1>3. iter = W(iter)
  <2> HIDE DEF W
  <2> QED
    BY <1>2
<1>4. Solves(Size[k], SUBSET S, iter)
  <2> HIDE DEF W, iter
  <2> QED
    BY <1>1, <1>3 DEF Solves
<1>5. Sum(kept) = iter[S]
  BY DEF Sum, MapThenSumSet, MapThenFoldSet, One
<1>6. iter[S] = Total(Size[k], S)
  <2> HIDE DEF iter
  <2> QED
    BY <1>4, SolutionIsTotal
<1> QED
  BY <1>5, <1>6

\* What is counted is what the files of the cache's release weigh.
Counted == IsFiniteSet(DOMAIN assets) /\ assetBytes = Total(Size[assetKey], DOMAIN assets)

LEMMA InitCounted == Init => Counted
<1> SUFFICES ASSUME Init PROVE Counted
  OBVIOUS
<1>1. assetBytes = 0 /\ DOMAIN assets = {}
  BY DEF Init, Nothing
<1>2. IsFiniteSet({}) /\ Total(Size[assetKey], {}) = 0
  BY FS_EmptySet, TotalEmpty
<1> QED
  BY <1>1, <1>2 DEF Counted

LEMMA LookupAssetCounted ==
  ASSUME Counted, NEW q \in Requests, LookupAsset(q)
  PROVE  Counted'
<1>1. CASE assetKey' = held[q] /\ assetBytes' = 0 /\ assets' = Nothing
  <2>1. DOMAIN assets' = {}
    BY <1>1 DEF Nothing
  <2>2. IsFiniteSet({}) /\ Total(Size[assetKey'], {}) = 0
    BY FS_EmptySet, TotalEmpty
  <2> QED
    BY <1>1, <2>1, <2>2 DEF Counted
<1>2. CASE UNCHANGED assetVars
  BY <1>2 DEF assetVars, Counted
<1> QED
  BY <1>1, <1>2 DEF LookupAsset

LEMMA StoreAssetCounted ==
  ASSUME CacheInv, Counted, NEW q \in Requests, StoreAsset(q)
  PROVE  Counted'
<1>1. CASE ~Fits(held[q], Head(names[q]))
  BY <1>1 DEF StoreAsset, Counted
<1>2. CASE Fits(held[q], Head(names[q]))
  <2>1. PICK k, p, D : k = held[q] /\ p = Head(names[q]) /\ D = DOMAIN assets
    OBVIOUS
  <2>2. /\ DOMAIN assets' = D \cup {p} /\ p \notin D
        /\ assetKey = k /\ assetKey' = k /\ assetBytes' = assetBytes + Size[k][p]
    BY <1>2, <2>1 DEF StoreAsset, Fits
  <2>3. k \in Keys /\ p \in Paths /\ D \subseteq Paths
    <3>1. pc[q] = "store"
      BY DEF StoreAsset
    <3>2. k \in Keys /\ names[q] \in Seq(Paths) /\ names[q] # <<>>
      BY <2>1, <3>1 DEF CacheInv, RequestInv, Working, RequestsOK
    <3> QED
      BY <2>1, <3>2 DEF CacheInv, CachesOK
  <2>4. PICK E : E = D \cup {p}
    OBVIOUS
  <2>5. E \ {p} = D /\ p \in E /\ E \in SUBSET Paths
    BY <2>2, <2>3, <2>4
  <2>6. IsFiniteSet(D) /\ IsFiniteSet(E)
    BY <2>1, <2>4, FS_AddElement DEF Counted
  <2>7. PICK f \in [Paths -> Nat] : f = Size[k]
    BY <2>3, CachesAssumption
  <2>8. Total(f, E) = f[p] + Total(f, D)
    BY <2>5, <2>6, TotalWithout
  <2>9. Total(f, D) \in Nat /\ f[p] \in Nat
    BY <2>3, <2>6, TotalIsNat
  <2>10. assetBytes = Total(f, D)
    BY <2>1, <2>2, <2>7 DEF Counted
  <2>11. assetBytes' = Total(f, E)
    BY <2>2, <2>7, <2>8, <2>9, <2>10
  <2> QED
    BY <2>2, <2>4, <2>6, <2>7, <2>11 DEF Counted
<1> QED
  BY <1>1, <1>2

LEMMA StepCounted == CacheInv /\ Counted /\ [Next]_vars => Counted'
<1> SUFFICES ASSUME CacheInv, Counted, [Next]_vars PROVE Counted'
  OBVIOUS
<1>1. ASSUME UNCHANGED assetVars PROVE Counted'
  BY <1>1 DEF assetVars, Counted
<1>2. CASE UNCHANGED vars
  BY <1>1, <1>2 DEF vars
<1>3. CASE Next
  BY <1>1, <1>3, LookupAssetCounted, StoreAssetCounted
  DEF Next, Switch, Acquire, LookupStyle, Read, StoreStyle
<1> QED
  BY <1>2, <1>3

LEMMA CountedIsBudget == CacheInv /\ Counted => AssetBudget
<1> SUFFICES ASSUME CacheInv, Counted PROVE AssetBudget
  OBVIOUS
<1>1. Sum(assets) = Total(Size[assetKey], DOMAIN assets)
  BY OneReleaseSum DEF CacheInv, CachesOK, OneRelease, Counted
<1> QED
  BY <1>1 DEF Sum, AssetBudget, CacheInv, WithinLimit, Counted

(* The bytes counted are those of the files kept, and never exceed the     *)
(* limit (assetCacheLimit).                                                *)
THEOREM BytesCounted == Spec => []AssetBudget
<1>1. Init => CacheInv /\ Counted
  BY InitInv, InitCounted
<1>2. CacheInv /\ Counted /\ [Next]_vars => (CacheInv /\ Counted)'
  BY StepInv, StepCounted
<1>3. CacheInv /\ Counted => AssetBudget
  BY CountedIsBudget
<1> QED
  BY <1>1, <1>2, <1>3, PTL DEF Spec
=============================================================================
