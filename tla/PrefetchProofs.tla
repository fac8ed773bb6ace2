--------------------------- MODULE PrefetchProofs --------------------------
(***************************************************************************)
(* Type correctness and the memory budget of the read-ahead, for every     *)
(* plan, window, depth, budget and every behaviour of upstream and client. *)
(***************************************************************************)
EXTENDS Prefetch, FiniteSetTheorems, TLAPS

\* Each pointer in the map is the record of its own file: what release(i, e)
\* gives back for e is then what the entry of i was charged.
EntriesMatch == \A j \in DOMAIN entries : heap[entries[j]].pos = j

\* Where the writer is, its locals mean something.
ControlOK ==
    /\ pc \in {"ahead", "wait", "live", "copy"} => at \in Positions
    /\ pc = "ahead" => found \in Positions /\ ahead >= 1
    /\ pc = "wait" => found \in Positions /\ held \in 1 .. Len(heap)
    /\ body.from # "none" => pc = "copy"
    /\ body.from = "buffer" => found \in Positions /\ held \in 1 .. Len(heap)

BodyType == [from : {"none", "live", "buffer"}, of : Urls \cup {NoUrl}, len : Nat]
CallType == [url : Urls \cup {NoUrl}, begin : Int, end : Int]

\* BudgetExact alone is not inductive: a release subtracts the size of the file
\* its record names, so the record must name the position it is filed under.
IInv == TypeOK /\ BudgetExact /\ EntriesMatch /\ ControlOK
-----------------------------------------------------------------------------
\* The part of a file inside the window is given by two offsets into the file.
LEMMA CutType ==
    ASSUME TypeOK, NEW i \in Positions
    PROVE  Cut(i).b \in Int /\ Cut(i).e \in Int
<1>1. Start[i] \in Int /\ Size[i] \in Int /\ window.b \in Int /\ window.e \in Int
  <2>1. Start[i] \in Int /\ Size[i] \in Int
    BY PlanAssumption
  <2>2. window \in Windows
    BY DEF TypeOK
  <2>3. window.b \in Int /\ window.e \in Int
    BY <2>2, PlanAssumption
  <2> QED
    BY <2>1, <2>3
<1> QED
  BY <1>1 DEF Cut, Clip

\* Taking one file out of a set of files takes its size out of their sum.
LEMMA TotalWithout ==
    ASSUME NEW S \in SUBSET Positions, NEW i \in S
    PROVE  /\ Total[S] = Total[S \ {i}] + Size[i]
           /\ Total[S \ {i}] \in Nat /\ Size[i] \in Nat
<1>1. S \ {i} \in SUBSET Positions /\ i \in Positions \ (S \ {i})
  OBVIOUS
<1>2. (S \ {i}) \cup {i} = S
  OBVIOUS
<1> QED
  BY <1>1, <1>2, TotalAssumption, PlanAssumption

\* release (prefetch.go:230-238) keeps the ledger exact and changes nothing when
\* the entry is not, or no longer, the one filed under i.
LEMMA ReleaseKeeps ==
    ASSUME IInv, NEW i \in Positions, NEW e \in 1 .. Len(heap), Release(i, e)
    PROVE  /\ used' \in Nat
           /\ heap' \in Seq(Entry) /\ Len(heap') = Len(heap)
           /\ DOMAIN entries' \subseteq Positions
           /\ \A j \in DOMAIN entries' : entries'[j] \in 1 .. Len(heap')
           /\ used' = Total[DOMAIN entries'] /\ used' <= Budget
           /\ \A j \in DOMAIN entries' : heap'[entries'[j]].pos = j
<1>1. CASE i \in DOMAIN entries /\ entries[i] = e
  <2>1. /\ used' = used - Size[heap[e].pos]
        /\ entries' = [j \in DOMAIN entries \ {i} |-> entries[j]]
        /\ heap' = [heap EXCEPT ![e] = Freed(heap[e])]
    BY <1>1 DEF Release
  <2>2. heap[e].pos = i /\ heap[e] \in Entry /\ heap \in Seq(Entry)
    BY <1>1 DEF IInv, TypeOK, EntriesMatch
  <2>3. Freed(heap[e]) \in Entry /\ Freed(heap[e]).pos = heap[e].pos
    BY <2>2 DEF Freed, Entry
  <2>4. /\ heap' \in Seq(Entry) /\ Len(heap') = Len(heap)
        /\ \A h \in 1 .. Len(heap) : heap'[h].pos = heap[h].pos
    BY <2>1, <2>2, <2>3
  <2>5. DOMAIN entries \in SUBSET Positions /\ i \in DOMAIN entries
    BY <1>1 DEF IInv, TypeOK
  <2>6. /\ Total[DOMAIN entries] = Total[DOMAIN entries \ {i}] + Size[i]
        /\ Total[DOMAIN entries \ {i}] \in Nat /\ Size[i] \in Nat
    BY <2>5, TotalWithout
  <2>7. DOMAIN entries' = DOMAIN entries \ {i}
        /\ \A j \in DOMAIN entries' : entries'[j] = entries[j]
    BY <2>1
  <2>8. used = Total[DOMAIN entries] /\ used <= Budget /\ Budget \in Nat
    BY ConfigAssumption DEF IInv, BudgetExact
  <2>9. used' = Total[DOMAIN entries']
    BY <2>1, <2>2, <2>6, <2>7, <2>8
  <2>10. used' \in Nat /\ used' <= Budget
    BY <2>6, <2>7, <2>8, <2>9
  <2>11. \A j \in DOMAIN entries' : /\ j \in DOMAIN entries
                                    /\ entries'[j] \in 1 .. Len(heap)
                                    /\ heap[entries'[j]].pos = j
    BY <2>7 DEF IInv, TypeOK, EntriesMatch
  <2> QED
    BY <2>4, <2>5, <2>7, <2>9, <2>10, <2>11
<1>2. CASE ~(i \in DOMAIN entries /\ entries[i] = e)
  BY <1>2 DEF Release, prefetchVars, IInv, TypeOK, BudgetExact, EntriesMatch
<1> QED
  BY <1>1, <1>2

\* locate answers a position of the plan, or 0, and its cursor stays in range.
LEMMA LocateType ==
    ASSUME TypeOK, NEW url, Locate(url)
    PROVE  /\ found' \in 0 .. NFiles
           /\ next' \in 1 .. NFiles + 1
           /\ nextURL' = url \/ nextURL' = NoUrl
<1> USE ConfigAssumption DEF TypeOK
<1>1. CASE Matches(url) = {}
  BY <1>1 DEF Locate
<1>2. CASE Matches(url) # {}
  BY <1>2 DEF Locate, Matches
<1> QED
  BY <1>1, <1>2

\* What every step that leaves the prefetcher's pool alone preserves.
LEMMA PoolUnchanged ==
    ASSUME IInv, UNCHANGED prefetchVars
    PROVE  BudgetExact' /\ EntriesMatch'
BY DEF IInv, BudgetExact, EntriesMatch, prefetchVars
-----------------------------------------------------------------------------
LEMMA InitIInv == Init => IInv
<1> SUFFICES ASSUME Init PROVE IInv
  OBVIOUS
<1> USE ConfigAssumption, PlanAssumption, TotalAssumption DEF Init, NoCall, NoBody
<1>1. TypeOK
  <2>1. heap \in Seq(Entry) /\ Len(heap) = 0 /\ DOMAIN entries = {}
    OBVIOUS
  <2>2. call \in CallType /\ body \in BodyType
    BY DEF CallType, BodyType
  <2>3. /\ next \in 1 .. NFiles + 1 /\ at \in 1 .. NFiles + 1
        /\ found \in 0 .. NFiles /\ ahead \in Nat /\ used \in Nat
        /\ held \in 0 .. Len(heap) /\ served \subseteq 1 .. Len(heap)
    BY <2>1
  <2>4. /\ faults \subseteq {"live", "client"} /\ ctxDone \in BOOLEAN /\ gapped \in BOOLEAN
        /\ nextURL \in Urls \cup {NoUrl} /\ pc = "file"
        /\ window \in Windows /\ cold \in ColdFiles
    OBVIOUS
  <2>5. DOMAIN entries \subseteq Positions
        /\ \A j \in DOMAIN entries : entries[j] \in 1 .. Len(heap)
    BY <2>1
  <2> HIDE ConfigAssumption, PlanAssumption, TotalAssumption DEF Init, NoCall, NoBody
  <2> QED
    BY <2>1, <2>2, <2>3, <2>4, <2>5 DEF TypeOK, CallType, BodyType
<1>2. BudgetExact
  BY DEF BudgetExact
<1>3. EntriesMatch
  BY DEF EntriesMatch
<1>4. ControlOK
  BY DEF ControlOK
<1> QED
  BY <1>1, <1>2, <1>3, <1>4 DEF IInv

\* The steps of the archive loop and of the arguments of its fetches.
LEMMA FetchStep ==
    ASSUME IInv, FetchGap \/ FetchContent
    PROVE  IInv'
<1>1. at \in Positions
  BY ConfigAssumption DEF FetchGap, FetchContent, IInv, TypeOK, Positions
<1>2. PICK c : /\ EnterFetch(c) /\ c.url = Url[at]
               /\ c \in [url : Urls \cup {NoUrl}, begin : Int, end : Int]
  <2>1. CASE FetchGap
    BY <1>1, <2>1, CutType DEF FetchGap, IInv, Urls
  <2>2. CASE FetchContent
    BY <1>1, <2>2, CutType DEF FetchContent, ContentCall, Unbounded, IInv, Urls
  <2> QED
    BY <2>1, <2>2
<1>3. /\ found' \in 0 .. NFiles /\ next' \in 1 .. NFiles + 1
      /\ nextURL' \in Urls \cup {NoUrl}
  BY <1>1, <1>2, LocateType DEF IInv, EnterFetch, Urls
<1>4. /\ UNCHANGED <<envVars, ctxDone, faults, prefetchVars, at, held, body, served>>
      /\ gapped' \in BOOLEAN
  BY DEF FetchGap, FetchContent, IInv, TypeOK
<1>5. /\ call' = c
      /\ pc' = IF found' = 0 THEN "live" ELSE "ahead"
  BY <1>2 DEF EnterFetch
<1>8. ahead' \in Nat /\ ahead' >= 1
  <2>1. ahead' = found' + 1
    BY <1>2 DEF EnterFetch
  <2>2. PICK k \in Nat : k = found'
    BY <1>3
  <2>3. ahead' = k + 1
    BY <2>1, <2>2
  <2> QED
    BY <2>3
<1>6. TypeOK'
  <2>1. ahead' \in Nat /\ pc' \in {"ahead", "live"} /\ call' \in CallType
    <3>1. call' \in CallType
      BY <1>2, <1>5 DEF CallType
    <3> QED
      BY <1>5, <1>8, <3>1
  <2> QED
    BY <1>3, <1>4, <2>1 DEF IInv, TypeOK, envVars, prefetchVars, CallType
<1>7. ControlOK'
  <2>1. pc' = "ahead" => found' \in Positions /\ ahead' >= 1
    <3>1. pc' = "ahead" => found' # 0
      BY <1>5
    <3>2. NFiles \in Nat
      BY ConfigAssumption
    <3> QED
      BY <1>3, <1>8, <3>1, <3>2 DEF Positions
  <2>2. pc = "file" /\ pc' \in {"ahead", "live"}
    BY <1>5 DEF FetchGap, FetchContent
  <2>3. body'.from = "none"
    BY <1>4, <2>2 DEF IInv, ControlOK, TypeOK
  <2> QED
    BY <1>1, <1>4, <2>1, <2>2, <2>3 DEF ControlOK
<1> QED
  BY <1>4, <1>6, <1>7, PoolUnchanged DEF IInv

\* One iteration of startAhead charges what it files.
LEMMA StartAheadStep ==
    ASSUME IInv, StartAhead
    PROVE  IInv'
<1> USE DEF IInv
<1>1. ahead \in Positions /\ found \in Positions /\ pc = "ahead" /\ pc' = pc
  BY ConfigAssumption DEF StartAhead, TypeOK, ControlOK, Positions
<1>2. UNCHANGED <<envVars, ctxDone, faults, locateVars, pc, at, gapped,
                  call, found, held, body, served>> /\ ahead' = ahead + 1
  BY DEF StartAhead
<1>3. CASE Qualifies(ahead)
  <2>1. /\ used' = used + Size[ahead]
        /\ heap' = Append(heap, NewEntry(ahead))
        /\ entries' = [j \in DOMAIN entries \cup {ahead} |->
                          IF j = ahead THEN Len(heap) + 1 ELSE entries[j]]
    BY <1>3 DEF StartAhead
  <2>2. NewEntry(ahead) \in Entry /\ NewEntry(ahead).pos = ahead
    BY <1>1 DEF NewEntry, Entry, RunPCs
  <2>3. /\ heap' \in Seq(Entry) /\ Len(heap') = Len(heap) + 1
        /\ heap'[Len(heap) + 1].pos = ahead
        /\ \A h \in 1 .. Len(heap) : heap'[h] = heap[h]
    BY <2>1, <2>2 DEF TypeOK
  <2>4. /\ DOMAIN entries' = DOMAIN entries \cup {ahead}
        /\ entries'[ahead] = Len(heap) + 1
        /\ \A j \in DOMAIN entries : entries'[j] = entries[j]
    BY <1>3, <2>1 DEF Qualifies
  <2>5. Size[ahead] \in Nat /\ used \in Nat /\ Len(heap) \in Nat
    BY <1>1, PlanAssumption DEF TypeOK
  <2>6. BudgetExact'
    <3>1. Total[DOMAIN entries \cup {ahead}] = Total[DOMAIN entries] + Size[ahead]
      BY <1>1, <1>3, TotalAssumption DEF TypeOK, Qualifies
    <3>2. used + Size[ahead] <= Budget
      BY <1>3 DEF Qualifies
    <3> QED
      BY <2>1, <2>4, <3>1, <3>2 DEF BudgetExact
  <2>7. EntriesMatch'
    <3>1. ASSUME NEW j \in DOMAIN entries'
          PROVE  heap'[entries'[j]].pos = j
      <4>1. CASE j = ahead
        BY <2>3, <2>4, <4>1
      <4>2. CASE j # ahead
        <5>1. j \in DOMAIN entries /\ entries'[j] = entries[j] /\ entries[j] \in 1 .. Len(heap)
          BY <2>4, <4>2 DEF TypeOK
        <5> QED
          BY <2>3, <5>1 DEF EntriesMatch
      <4> QED
        BY <4>1, <4>2
    <3> QED
      BY <3>1 DEF EntriesMatch
  <2>8. TypeOK'
    <3>1. \A j \in DOMAIN entries' : entries'[j] \in 1 .. Len(heap')
      BY <2>3, <2>4, <2>5 DEF TypeOK
    <3>2. /\ DOMAIN entries' \subseteq Positions /\ used' \in Nat /\ ahead' \in Nat
          /\ held' \in 0 .. Len(heap') /\ served' \subseteq 1 .. Len(heap')
      <4>1. DOMAIN entries' \subseteq Positions
        BY <1>1, <2>4 DEF TypeOK
      <4>a. ahead \in Nat /\ held \in 0 .. Len(heap) /\ served \subseteq 1 .. Len(heap)
        BY DEF TypeOK
      <4>2. used' \in Nat /\ ahead' \in Nat
        BY <1>2, <2>1, <2>5, <4>a
      <4>3. held' \in 0 .. Len(heap') /\ served' \subseteq 1 .. Len(heap')
        <5> HIDE DEF IInv
        <5> QED
          BY <1>2, <2>3, <2>5, <4>a
      <4> QED
        BY <4>1, <4>2, <4>3
    <3> QED
      BY <1>2, <2>3, <3>1, <3>2 DEF TypeOK, envVars, locateVars
  <2>9. ControlOK'
    BY <1>1, <1>2, <2>3, <2>5 DEF ControlOK, TypeOK
  <2> QED
    BY <2>6, <2>7, <2>8, <2>9
<1>4. CASE ~Qualifies(ahead)
  <2>1. UNCHANGED prefetchVars
    BY <1>4 DEF StartAhead
  <2>2. TypeOK'
    BY <1>2, <2>1 DEF TypeOK, envVars, locateVars, prefetchVars
  <2>3. ControlOK'
    BY <1>1, <1>2, <2>1 DEF ControlOK, prefetchVars, TypeOK
  <2> QED
    BY <2>1, <2>2, <2>3, PoolUnchanged
<1> QED
  BY <1>3, <1>4

\* The steps that leave the pool alone and only move the writer.
LEMMA QuietStep ==
    ASSUME IInv, SkipFile \/ Finish \/ Lookup \/ WaitBuffered \/ WaitCancelled
                 \/ LiveAnswered \/ LiveFailed \/ LiveCancelled
    PROVE  IInv'
<1> USE DEF IInv
<1>1. UNCHANGED prefetchVars
  BY DEF SkipFile, Finish, Lookup, WaitBuffered, WaitCancelled,
         LiveAnswered, LiveFailed, LiveCancelled
<1>2. CASE SkipFile
  BY <1>2, ConfigAssumption
     DEF SkipFile, TypeOK, ControlOK, envVars, locateVars, prefetchVars, fetchVars,
         BudgetExact, EntriesMatch
<1>3. CASE Finish
  BY <1>3 DEF Finish, TypeOK, ControlOK, envVars, locateVars, prefetchVars, fetchVars,
              BudgetExact, EntriesMatch
<1>4. CASE Lookup
  <2>1. /\ pc = "ahead" /\ found \in Positions
        /\ UNCHANGED <<envVars, ctxDone, faults, locateVars, at, gapped,
                       call, found, ahead, body, served>>
    BY <1>4 DEF Lookup, ControlOK
  <2>2. \/ pc' = "live" /\ held' = 0
        \/ pc' = "wait" /\ held' \in 1 .. Len(heap)
    BY <1>4 DEF Lookup, TypeOK
  <2>3. at \in Positions
    BY <2>1 DEF ControlOK
  <2>4. TypeOK'
    BY <1>1, <2>1, <2>2 DEF TypeOK, envVars, locateVars, prefetchVars
  <2>5. body'.from = "none"
    BY <2>1 DEF ControlOK, TypeOK
  <2>6. ControlOK'
    BY <1>1, <2>1, <2>2, <2>3, <2>5 DEF ControlOK, prefetchVars
  <2> QED
    BY <1>1, <2>4, <2>6, PoolUnchanged
<1>5. CASE WaitBuffered
  <2>1. heap[held] \in Entry /\ held \in 1 .. Len(heap) /\ found \in Positions /\ at \in Positions
    BY <1>5 DEF WaitBuffered, ControlOK, TypeOK
  <2>2. body' \in [from : {"none", "live", "buffer"}, of : Urls \cup {NoUrl}, len : Nat]
    BY <1>5, <2>1 DEF WaitBuffered, Entry
  <2>3. TypeOK'
    BY <1>1, <1>5, <2>2 DEF WaitBuffered, TypeOK, envVars, locateVars, prefetchVars, fetchVars
  <2>4. ControlOK'
    BY <1>1, <1>5, <2>1 DEF WaitBuffered, ControlOK, prefetchVars, fetchVars
  <2> QED
    BY <1>1, <2>3, <2>4, PoolUnchanged
<1>6. CASE WaitCancelled
  BY <1>6 DEF WaitCancelled, TypeOK, ControlOK, envVars, locateVars, prefetchVars, fetchVars,
              BudgetExact, EntriesMatch
<1>7. CASE LiveAnswered
  <2>1. body' \in [from : {"none", "live", "buffer"}, of : Urls \cup {NoUrl}, len : Nat]
    BY <1>7 DEF LiveAnswered, TypeOK
  <2>2. TypeOK'
    BY <1>1, <1>7, <2>1 DEF LiveAnswered, TypeOK, envVars, locateVars, prefetchVars, fetchVars
  <2>3. ControlOK'
    BY <1>1, <1>7 DEF LiveAnswered, ControlOK, prefetchVars, fetchVars
  <2> QED
    BY <1>1, <2>2, <2>3, PoolUnchanged
<1>8. CASE LiveFailed \/ LiveCancelled
  <2>1. /\ UNCHANGED <<envVars, ctxDone, locateVars, at, gapped, fetchVars, served>>
        /\ faults' \subseteq {"live", "client"}
        /\ body' = NoBody /\ pc' \in {"file", "failed"}
    BY <1>8 DEF LiveFailed, LiveCancelled, AfterFailedRead, TypeOK
  <2>2. NoBody \in [from : {"none", "live", "buffer"}, of : Urls \cup {NoUrl}, len : Nat]
        /\ NoBody.from = "none"
    BY DEF NoBody
  <2>3. TypeOK'
    BY <1>1, <2>1, <2>2 DEF TypeOK, envVars, locateVars, prefetchVars, fetchVars
  <2>4. ControlOK'
    BY <1>1, <2>1, <2>2 DEF ControlOK, prefetchVars, fetchVars
  <2> QED
    BY <1>1, <2>3, <2>4, PoolUnchanged
<1> QED
  BY <1>2, <1>3, <1>4, <1>5, <1>6, <1>7, <1>8

\* The steps that release an entry.
LEMMA ReleaseStep ==
    ASSUME IInv, WaitFailed \/ CopyDone \/ ClientWriteFailed
    PROVE  IInv'
<1>1. CASE WaitFailed
  <2>1. /\ found \in Positions /\ held \in 1 .. Len(heap) /\ at \in Positions
        /\ body.from = "none" /\ Release(found, held) /\ held' = 0 /\ pc' = "live"
        /\ UNCHANGED <<envVars, ctxDone, faults, locateVars, at, gapped,
                       call, found, ahead, body, served>>
    BY <1>1 DEF WaitFailed, IInv, ControlOK
  <2>2. BudgetExact' /\ EntriesMatch'
    BY <2>1, ReleaseKeeps DEF BudgetExact, EntriesMatch
  <2>3. TypeOK'
    BY <2>1, ReleaseKeeps DEF IInv, TypeOK, envVars, locateVars
  <2>4. ControlOK'
    BY <2>1 DEF ControlOK
  <2> QED
    BY <2>2, <2>3, <2>4 DEF IInv
<1>2. CASE CopyDone \/ ClientWriteFailed
  <2>1. /\ CloseBody
        /\ UNCHANGED <<envVars, ctxDone, locateVars, call, found, ahead>>
        /\ faults' \subseteq {"live", "client"}
    BY <1>2 DEF CopyDone, ClientWriteFailed, IInv, TypeOK
  <2>2. pc' \in {"file", "failed"} /\ at' \in 1 .. NFiles + 1 /\ gapped' \in BOOLEAN
    <3>1. CASE CopyDone
      <4>1. at \in 1 .. NFiles /\ NFiles \in Nat
        BY <3>1, ConfigAssumption DEF CopyDone, IInv, ControlOK, Positions
      <4>2. \/ pc' = "file" /\ at' = at /\ gapped' = gapped
            \/ pc' = "file" /\ at' = at + 1 /\ gapped' = FALSE
        BY <3>1 DEF CopyDone, NextFile
      <4>3. gapped \in BOOLEAN
        BY DEF IInv, TypeOK
      <4>4. gapped' \in BOOLEAN
        BY <4>2, <4>3
      <4>5. at' \in 1 .. NFiles + 1
        BY <4>1, <4>2
      <4> QED
        BY <4>2, <4>4, <4>5
    <3>2. CASE ClientWriteFailed
      BY <3>2 DEF ClientWriteFailed, IInv, TypeOK
    <3> QED
      BY <1>2, <3>1, <3>2
  <2>3. body' = NoBody /\ held' = 0 /\ NoBody \in BodyType /\ NoBody.from = "none"
    BY <2>1 DEF CloseBody, NoBody, BodyType
  <2>4. /\ used' \in Nat /\ heap' \in Seq(Entry) /\ Len(heap') = Len(heap)
        /\ DOMAIN entries' \subseteq Positions
        /\ \A j \in DOMAIN entries' : entries'[j] \in 1 .. Len(heap')
        /\ BudgetExact' /\ EntriesMatch'
        /\ served' \subseteq 1 .. Len(heap)
    <3>1. CASE body.from = "buffer"
      <4>1. /\ Release(found, held) /\ served' = served \cup {held}
            /\ found \in Positions /\ held \in 1 .. Len(heap)
        BY <2>1, <3>1 DEF CloseBody, IInv, ControlOK
      <4>2. served' \subseteq 1 .. Len(heap)
        BY <4>1 DEF IInv, TypeOK
      <4> QED
        BY <4>1, <4>2, ReleaseKeeps DEF BudgetExact, EntriesMatch
    <3>2. CASE body.from # "buffer"
      <4>1. UNCHANGED prefetchVars /\ served' = served
        BY <2>1, <3>2 DEF CloseBody
      <4> QED
        BY <4>1, PoolUnchanged DEF IInv, TypeOK, prefetchVars
    <3> QED
      BY <3>1, <3>2
  <2>5. TypeOK'
    <3>1. Len(heap) \in Nat
      BY DEF IInv, TypeOK
    <3> QED
      BY <2>1, <2>2, <2>3, <2>4, <3>1 DEF IInv, TypeOK, BodyType, envVars, locateVars
  <2>6. ControlOK'
    BY <2>2, <2>3 DEF ControlOK
  <2> QED
    BY <2>4, <2>5, <2>6 DEF IInv
<1> QED
  BY <1>1, <1>2

\* A prefetch goroutine only fills in its own record.
LEMMA RunStep ==
    ASSUME IInv, NEW h \in 1 .. Len(heap), Run(h)
    PROVE  IInv'
<1>1. heap[h] \in Entry /\ heap \in Seq(Entry)
  BY DEF IInv, TypeOK
<1>2. PICK entry \in Entry : RunEnds(h, entry) /\ entry.pos = heap[h].pos
  <2>1. Failed(heap[h]) \in Entry /\ Failed(heap[h]).pos = heap[h].pos
    BY <1>1 DEF Failed, Entry, RunPCs
  <2>2. CASE RunAnswered(h)
    <3>1. [heap[h] EXCEPT !.pc = "read"] \in Entry
      BY <1>1 DEF Entry, RunPCs
    <3>2. [heap[h] EXCEPT !.pc = "read"].pos = heap[h].pos
      BY <1>1 DEF Entry
    <3> QED
      BY <2>2, <3>1, <3>2 DEF RunAnswered
  <2>3. CASE RunFailed(h) \/ RunCancelled(h)
    BY <2>1, <2>3 DEF RunFailed, RunCancelled
  <2>4. CASE RunRead(h)
    <3> DEFINE size == Size[heap[h].pos]
               full(c) == [heap[h] EXCEPT !.pc = "done", !.of = Url[heap[h].pos],
                                          !.len = size, !.cap = c]
    <3>1. size \in Nat /\ Url[heap[h].pos] \in Urls
      BY <1>1, PlanAssumption DEF Entry, Urls
    <3>2. \A n \in BodyLengths(size) : \A c \in ReadCaps(n, size) : c \in Nat
      BY <3>1 DEF ReadCaps
    <3>3. ASSUME NEW c \in Nat PROVE full(c) \in Entry /\ full(c).pos = heap[h].pos
      BY <1>1, <3>1 DEF Entry, RunPCs
    <3>4. \/ RunEnds(h, Failed(heap[h]))
          \/ \E c \in Nat : RunEnds(h, full(c))
      BY <2>4, <3>2 DEF RunRead
    <3> HIDE DEF full
    <3> QED
      BY <2>1, <3>3, <3>4
  <2> QED
    BY <2>2, <2>3, <2>4 DEF Run
<1>3. /\ heap' = [heap EXCEPT ![h] = entry]
      /\ UNCHANGED <<envVars, ctxDone, faults, locateVars, used, entries,
                     pc, at, gapped, fetchVars, body, served>>
  BY <1>2 DEF RunEnds
<1>4. /\ heap' \in Seq(Entry) /\ Len(heap') = Len(heap)
      /\ \A g \in 1 .. Len(heap) : heap'[g].pos = heap[g].pos
  BY <1>1, <1>2, <1>3
<1>5. TypeOK'
  BY <1>3, <1>4 DEF IInv, TypeOK, envVars, locateVars, fetchVars
<1>6. BudgetExact'
  BY <1>3 DEF IInv, BudgetExact
<1>7. EntriesMatch'
  BY <1>3, <1>4 DEF IInv, TypeOK, EntriesMatch
<1>8. ControlOK'
  BY <1>3, <1>4 DEF IInv, ControlOK, fetchVars
<1> QED
  BY <1>5, <1>6, <1>7, <1>8 DEF IInv

LEMMA NextIInv == IInv /\ [Next]_vars => IInv'
<1> SUFFICES ASSUME IInv, [Next]_vars PROVE IInv'
  OBVIOUS
<1>1. CASE FetchGap \/ FetchContent
  BY <1>1, FetchStep
<1>2. CASE StartAhead
  BY <1>2, StartAheadStep
<1>3. CASE SkipFile \/ Finish \/ Lookup \/ WaitBuffered \/ WaitCancelled
           \/ LiveAnswered \/ LiveFailed \/ LiveCancelled
  BY <1>3, QuietStep
<1>4. CASE WaitFailed \/ CopyDone \/ ClientWriteFailed
  BY <1>4, ReleaseStep
<1>5. CASE \E h \in 1 .. Len(heap) : Run(h)
  BY <1>5, RunStep
<1>6. CASE ClientLeaves \/ HandlerReturns
  <2>1. /\ ctxDone' \in BOOLEAN
        /\ UNCHANGED <<envVars, faults, locateVars, prefetchVars, pc, at, gapped,
                       fetchVars, body, served>>
    BY <1>6 DEF ClientLeaves, HandlerReturns
  <2>2. TypeOK'
    BY <2>1 DEF IInv, TypeOK, envVars, locateVars, prefetchVars, fetchVars
  <2>3. ControlOK'
    BY <2>1 DEF IInv, ControlOK, prefetchVars, fetchVars
  <2> QED
    BY <2>1, <2>2, <2>3, PoolUnchanged DEF IInv
<1>7. CASE UNCHANGED vars
  BY <1>7 DEF vars, IInv, TypeOK, BudgetExact, EntriesMatch, ControlOK,
              envVars, locateVars, prefetchVars, fetchVars
<1> QED
  BY <1>1, <1>2, <1>3, <1>4, <1>5, <1>6, <1>7 DEF Next, Writer, Terminated

\* The variables of the prefetcher and its writer keep their types, in particular
\* `used' never becomes negative (prefetch.go:41-65).
THEOREM TypeCorrect == Spec => []TypeOK
<1>1. IInv => TypeOK
  BY DEF IInv
<1> QED
  BY <1>1, InitIInv, NextIInv, PTL DEF Spec

\* prefetch.go:193 "Budget is a hard cap": at every moment of every request the
\* ledger is the sum of the sizes of the bodies in the map and at most Budget.
THEOREM BudgetHolds == Spec => []BudgetExact
<1>1. IInv => BudgetExact
  BY DEF IInv
<1> QED
  BY <1>1, InitIInv, NextIInv, PTL DEF Spec
-----------------------------------------------------------------------------
(* What the writer is given: the plan is never lost, and a buffer holds    *)
(* the file that was asked for.                                            *)

Calling == pc \in {"ahead", "wait", "live", "copy"}

\* The writer asks for the content of the file it is at, or for the gap in front
\* of a left cut of it.
Asked ==
    /\ ~Cut(at).skip
    /\ call.url = Url[at]
    /\ \/ /\ call.begin = Cut(at).b
          /\ call.end = IF Cut(at).partial THEN Cut(at).e ELSE Unbounded
       \/ /\ call.begin \in 0 .. Cut(at).b - 1
          /\ call.end = Cut(at).b

\* The scan's cursor is at or in front of the writer, and on a file of the url the
\* writer asks for.
PlanOK ==
    /\ next <= at
    /\ nextURL # NoUrl => next \in Positions /\ nextURL = Url[next]
    /\ Calling => /\ found = next /\ found \in Positions
                  /\ Url[found] = Url[at] /\ Asked
    /\ pc = "ahead" => ahead > found
    /\ pc # "copy" => body = NoBody

\* A prefetched body as long as it is in the map.
Filled(j) ==
    LET e == heap[entries[j]]
    IN  e.pc = "done" /\ ~e.err => e.of = Url[j] /\ e.len = Size[j]

\* The writer waits for, or copies, an entry that is in the map under the file it
\* has found, and only for a whole file.
Holding == pc = "wait" \/ (pc = "copy" /\ body.from = "buffer")

BufferOK ==
    /\ \A j \in DOMAIN entries : Filled(j)
    /\ Holding => /\ found \in DOMAIN entries /\ entries[found] = held
                  /\ Whole(call.begin, call.end, Size[found])
    /\ pc = "copy" => body.of = Url[at]
    /\ pc = "copy" /\ body.from = "buffer" => body.len = Size[found]

KInv == IInv /\ PlanOK /\ BufferOK

\* Every record is in the map, or of a file the writer has left behind, or the
\* failed one of the file it is fetching live.
Started ==
    pc # "failed" =>
        \A h \in 1 .. Len(heap) :
            \/ heap[h].pos \in DOMAIN entries /\ entries[heap[h].pos] = h
            \/ heap[h].pos < at
            \/ /\ heap[h].pos = at /\ heap[h].err
               /\ pc \in {"live", "copy"} /\ ~IsGap

\* No file is prefetched twice.
OnceEach == \A g, h \in 1 .. Len(heap) : heap[g].pos = heap[h].pos => g = h

\* A whole file is fetched live only where there is no entry of it.
LiveWhole ==
    /\ pc \in {"live", "copy"} /\ body.from # "buffer"
    /\ Whole(call.begin, call.end, Size[at])
    => at \notin DOMAIN entries

LInv == KInv /\ Started /\ OnceEach /\ LiveWhole /\ NoLeak
-----------------------------------------------------------------------------
\* What the window leaves of a file that it does not skip.
LEMMA CutInside ==
    ASSUME TypeOK, NEW i \in Positions
    PROVE  /\ Cut(i).skip => Cut(i).partial
           /\ ~Cut(i).skip => /\ Cut(i).b \in Nat
                              /\ Cut(i).b > 0 => Cut(i).b < Size[i]
                              /\ ~Cut(i).partial => Cut(i).b = 0
<1>1. Start[i] \in Nat /\ Size[i] \in Nat /\ window.b \in Nat /\ window.e \in Nat
  BY PlanAssumption DEF TypeOK
<1> DEFINE out   == Outside(Start[i], window.b, window.e, Size[i])
           left  == CutsLeft(Start[i], window.b, Size[i])
           right == CutsRight(Start[i], window.e, Size[i])
<1>2. CASE out
  BY <1>2 DEF Cut, Clip
<1>3. CASE ~out
  <2>1. /\ ~Cut(i).skip /\ (~Cut(i).partial => ~left)
        /\ Cut(i).b = IF left THEN window.b - Start[i] ELSE 0
    BY <1>3 DEF Cut, Clip
  <2>2. CASE left
    <3>1. Cut(i).b = window.b - Start[i] /\ Cut(i).partial
      BY <2>1, <2>2
    <3>2. Start[i] + Size[i] > window.b /\ Start[i] < window.b
      BY <2>2 DEF CutsLeft
    <3>3. Cut(i).b \in Nat /\ Cut(i).b < Size[i]
      BY <1>1, <3>1, <3>2, SMT
    <3> QED
      BY <2>1, <3>1, <3>3
  <2>3. CASE ~left
    <3>1. Cut(i).b = 0
      BY <2>1, <2>3
    <3> QED
      BY <2>1, <3>1
  <2> QED
    BY <2>2, <2>3
<1> QED
  BY <1>2, <1>3

\* A gap is never the whole of its file, and the content of a file that is not
\* cut always is.
LEMMA GapOrWhole ==
    ASSUME TypeOK, at \in Positions, Asked
    PROVE  /\ Whole(call.begin, call.end, Size[at]) => ~IsGap
           /\ ~IsGap /\ ~Cut(at).partial => Whole(call.begin, call.end, Size[at])
<1>1. /\ Cut(at).b \in Nat
      /\ Cut(at).b > 0 => Cut(at).b < Size[at]
      /\ ~Cut(at).partial => Cut(at).b = 0
  BY CutInside DEF Asked
<1>2. Size[at] \in Nat
  BY PlanAssumption
<1>3. \/ /\ call.begin = Cut(at).b
         /\ call.end = IF Cut(at).partial THEN Cut(at).e ELSE Unbounded
      \/ /\ call.begin \in 0 .. Cut(at).b - 1
         /\ call.end = Cut(at).b
  BY DEF Asked
<1>4. CASE call.begin = Cut(at).b
  BY <1>1, <1>3, <1>4 DEF IsGap, Whole
<1>5. CASE call.begin \in 0 .. Cut(at).b - 1 /\ call.end = Cut(at).b
  BY <1>1, <1>2, <1>5 DEF IsGap, Whole, Unbounded
<1> QED
  BY <1>3, <1>4, <1>5

\* locate, asked for the file the writer is at, finds one of that url at or in
\* front of it (prefetch.go:125-141).
LEMMA LocateFinds ==
    ASSUME KInv, at \in Positions, Locate(Url[at])
    PROVE  /\ found' \in Positions /\ next' = found' /\ next <= next' /\ next' <= at
           /\ Url[found'] = Url[at] /\ nextURL' = Url[at]
<1>1. next \in 1 .. NFiles + 1 /\ next <= at /\ at \in 1 .. NFiles /\ NFiles \in Nat
  BY ConfigAssumption DEF KInv, IInv, TypeOK, PlanOK, Positions
<1>2. \A k \in Positions : UrlAt(k) = Url[k]
  BY DEF UrlAt, KInv, PlanOK
<1>3. at \in Matches(Url[at])
  BY <1>1, <1>2 DEF Matches, Positions
<1>4. PICK k \in Matches(Url[at]) :
         /\ \A m \in Matches(Url[at]) : k <= m
         /\ found' = k /\ next' = k /\ nextURL' = Url[at]
  BY <1>3 DEF Locate
<1>5. k \in next .. NFiles /\ UrlAt(k) = Url[at] /\ k <= at
  BY <1>3, <1>4 DEF Matches
<1> QED
  BY <1>1, <1>2, <1>4, <1>5 DEF Positions

\* A fetch begins.
LEMMA FetchKeeps ==
    ASSUME KInv, FetchGap \/ FetchContent
    PROVE  PlanOK' /\ BufferOK'
<1>1. at \in Positions /\ pc = "file" /\ body = NoBody /\ ~Cut(at).skip /\ TypeOK
  BY ConfigAssumption DEF FetchGap, FetchContent, KInv, IInv, TypeOK, PlanOK, Positions
<1>2. PICK c : /\ EnterFetch(c) /\ c.url = Url[at]
               /\ \/ /\ c.begin = Cut(at).b
                     /\ c.end = IF Cut(at).partial THEN Cut(at).e ELSE Unbounded
                  \/ /\ c.begin \in 0 .. Cut(at).b - 1
                     /\ c.end = Cut(at).b
  <2>1. CASE FetchGap
    BY <2>1 DEF FetchGap
  <2>2. CASE FetchContent
    BY <2>2 DEF FetchContent, ContentCall
  <2> QED
    BY <2>1, <2>2
<1>3. /\ found' \in Positions /\ next' = found' /\ next' <= at
      /\ Url[found'] = Url[at] /\ nextURL' = Url[at]
  BY <1>1, <1>2, LocateFinds DEF EnterFetch
<1>4. /\ UNCHANGED <<envVars, ctxDone, faults, prefetchVars, at, held, body, served>>
  BY DEF FetchGap, FetchContent
<1>5. call' = c /\ ahead' = found' + 1 /\ pc' = "ahead"
  <2>1. call' = c /\ ahead' = found' + 1 /\ pc' = IF found' = 0 THEN "live" ELSE "ahead"
    BY <1>2 DEF EnterFetch
  <2>2. found' # 0
    BY <1>3 DEF Positions
  <2> QED
    BY <2>1, <2>2
<1>6. Asked'
  BY <1>1, <1>2, <1>4, <1>5 DEF Asked, Cut, envVars
<1>7. ahead' > found'
  <2>1. PICK k \in Nat : k = found'
    BY <1>3, ConfigAssumption DEF Positions
  <2>2. ahead' = k + 1
    BY <1>5, <2>1
  <2>3. k + 1 > k
    OBVIOUS
  <2> QED
    BY <2>1, <2>2, <2>3, Zenon
<1>8. PlanOK'
  BY <1>1, <1>3, <1>4, <1>5, <1>6, <1>7 DEF PlanOK
<1>9. BufferOK'
  BY <1>1, <1>4, <1>5 DEF KInv, BufferOK, Filled, Holding, prefetchVars, NoBody
<1> QED
  BY <1>8, <1>9

\* What the writer asked for stays what it asked for.
LEMMA AskedStays ==
    ASSUME Asked, UNCHANGED <<window, call, at>>
    PROVE  Asked'
BY DEF Asked, Cut

\* One iteration of startAhead: an entry whose goroutine is not done.
LEMMA AheadKeeps ==
    ASSUME KInv, StartAhead
    PROVE  PlanOK' /\ BufferOK'
<1>1. /\ pc = "ahead" /\ pc' = "ahead" /\ ahead' = ahead + 1 /\ ahead \in Nat
      /\ UNCHANGED <<window, next, nextURL, at, call, found, held, body>>
  BY DEF StartAhead, KInv, IInv, TypeOK, envVars, locateVars
<1>2. /\ next <= at /\ found = next /\ found \in Positions
      /\ Url[found] = Url[at] /\ Asked /\ ahead > found /\ body = NoBody
      /\ nextURL # NoUrl => next \in Positions /\ nextURL = Url[next]
  BY <1>1 DEF KInv, PlanOK, Calling
<1>3. Asked' /\ ahead' > found'
  BY <1>1, <1>2, AskedStays DEF Positions
<1>4. PlanOK'
  BY <1>1, <1>2, <1>3 DEF PlanOK
<1>5. \A j \in DOMAIN entries' : Filled(j)'
  <2>1. CASE Qualifies(ahead)
    <3>1. /\ heap' = Append(heap, NewEntry(ahead)) /\ heap \in Seq(Entry)
          /\ entries' = [j \in DOMAIN entries \cup {ahead} |->
                            IF j = ahead THEN Len(heap) + 1 ELSE entries[j]]
      BY <2>1 DEF StartAhead, KInv, IInv, TypeOK
    <3>2. heap'[Len(heap) + 1].pc = "get"
      BY <3>1 DEF NewEntry
    <3>3. ASSUME NEW j \in DOMAIN entries' PROVE Filled(j)'
      <4>1. CASE j = ahead
        <5>1. heap'[entries'[j]].pc = "get"
          BY <3>1, <3>2, <4>1
        <5> QED
          BY <5>1 DEF Filled
      <4>2. CASE j # ahead
        <5>1. j \in DOMAIN entries /\ entries'[j] = entries[j] /\ entries[j] \in 1 .. Len(heap)
          BY <3>1, <4>2 DEF KInv, IInv, TypeOK
        <5>2. heap'[entries'[j]] = heap[entries[j]]
          BY <3>1, <5>1
        <5> QED
          BY <5>1, <5>2 DEF KInv, BufferOK, Filled
      <4> QED
        BY <4>1, <4>2
    <3> QED
      BY <3>3
  <2>2. CASE ~Qualifies(ahead)
    BY <2>2 DEF StartAhead, prefetchVars, KInv, BufferOK, Filled
  <2> QED
    BY <2>1, <2>2
<1>6. BufferOK'
  BY <1>1, <1>2, <1>5 DEF BufferOK, Holding, NoBody
<1> QED
  BY <1>4, <1>6

\* The steps of a fetch that leave the map, the cursor and the arguments alone.
LEMMA CallKeeps ==
    ASSUME KInv, Lookup \/ WaitBuffered \/ LiveAnswered
    PROVE  PlanOK' /\ BufferOK'
<1>1. /\ UNCHANGED <<window, next, nextURL, at, call, found, heap, entries>>
      /\ Calling /\ pc # "copy" /\ pc' \in {"wait", "live", "copy"}
  BY DEF Lookup, WaitBuffered, LiveAnswered, envVars, locateVars, prefetchVars, fetchVars, Calling
<1>2. /\ next <= at /\ found = next /\ found \in Positions
      /\ Url[found] = Url[at] /\ Asked /\ body = NoBody
      /\ nextURL # NoUrl => next \in Positions /\ nextURL = Url[next]
      /\ \A j \in DOMAIN entries : Filled(j)
  BY <1>1 DEF KInv, PlanOK, BufferOK
<1>3. Asked'
  BY <1>1, <1>2, AskedStays
<1>4. pc' # "copy" => body' = NoBody
  BY <1>2 DEF Lookup, WaitBuffered, LiveAnswered
<1>5. PlanOK'
  BY <1>1, <1>2, <1>3, <1>4 DEF PlanOK
<1>6. \A j \in DOMAIN entries' : Filled(j)'
  BY <1>1, <1>2 DEF Filled
<1>7. CASE Lookup
  BY <1>1, <1>2, <1>5, <1>6, <1>7 DEF Lookup, BufferOK, Holding, NoBody
<1>8. CASE WaitBuffered
  <2>1. /\ found \in DOMAIN entries /\ entries[found] = held
        /\ Whole(call.begin, call.end, Size[found])
        /\ heap[held].pc = "done" /\ ~heap[held].err
        /\ pc' = "copy" /\ held' = held
        /\ body' = [from |-> "buffer", of |-> heap[held].of, len |-> heap[held].len]
    BY <1>8 DEF WaitBuffered, KInv, BufferOK, Holding, fetchVars
  <2>2. heap[held].of = Url[found] /\ heap[held].len = Size[found]
    BY <1>2, <2>1 DEF Filled
  <2> QED
    BY <1>1, <1>2, <1>5, <1>6, <2>1, <2>2 DEF BufferOK
<1>9. CASE LiveAnswered
  <2>1. pc' = "copy" /\ body' = [from |-> "live", of |-> call.url, len |-> 0]
    BY <1>9 DEF LiveAnswered
  <2>2. call.url = Url[at]
    BY <1>2 DEF Asked
  <2> QED
    BY <1>1, <1>5, <1>6, <2>1, <2>2 DEF BufferOK, Holding
<1> QED
  BY <1>5, <1>7, <1>8, <1>9

\* The steps outside of fetches, and the ends of one, that leave the map alone.
LEMMA IdleKeeps ==
    ASSUME KInv,
           \/ SkipFile \/ Finish \/ WaitCancelled \/ LiveFailed \/ LiveCancelled
           \/ ClientLeaves \/ HandlerReturns \/ UNCHANGED vars
    PROVE  PlanOK' /\ BufferOK'
<1>1. UNCHANGED <<window, next, nextURL, heap, entries>>
  BY DEF SkipFile, Finish, WaitCancelled, LiveFailed, LiveCancelled, ClientLeaves,
         HandlerReturns, vars, envVars, locateVars, prefetchVars
<1>2. /\ next <= at
      /\ nextURL # NoUrl => next \in Positions /\ nextURL = Url[next]
      /\ \A j \in DOMAIN entries : Filled(j)
      /\ at \in 1 .. NFiles + 1 /\ next \in 1 .. NFiles + 1 /\ NFiles \in Nat
      /\ pc # "copy" => body = NoBody
  BY ConfigAssumption DEF KInv, IInv, TypeOK, PlanOK, BufferOK
<1>3. \A j \in DOMAIN entries' : Filled(j)'
  BY <1>1, <1>2 DEF Filled
<1>4. CASE SkipFile \/ Finish \/ WaitCancelled \/ LiveFailed \/ LiveCancelled
  <2>1. pc' \in {"file", "finished", "failed"} /\ body' = NoBody
    BY <1>2, <1>4 DEF SkipFile, Finish, WaitCancelled, LiveFailed, LiveCancelled,
                      AfterFailedRead, fetchVars
  <2>2. at' = at \/ at' = at + 1
    BY <1>4 DEF SkipFile, Finish, WaitCancelled, LiveFailed, LiveCancelled
  <2>3. next' <= at'
    BY <1>1, <1>2, <2>2
  <2>4. PlanOK'
    BY <1>1, <1>2, <2>1, <2>3 DEF PlanOK, Calling
  <2>5. BufferOK'
    BY <1>3, <2>1 DEF BufferOK, Holding
  <2> QED
    BY <2>4, <2>5
<1>5. CASE ClientLeaves \/ HandlerReturns \/ UNCHANGED vars
  <2>1. UNCHANGED <<window, pc, at, call, found, ahead, held, body>>
    BY <1>5 DEF ClientLeaves, HandlerReturns, vars, fetchVars, envVars
  <2>2. Calling => Asked'
    BY <2>1, AskedStays DEF KInv, PlanOK
  <2>3. PlanOK'
    BY <1>1, <1>2, <2>1, <2>2 DEF KInv, PlanOK, Calling
  <2>4. BufferOK'
    BY <1>1, <1>3, <2>1 DEF KInv, BufferOK, Holding
  <2> QED
    BY <2>3, <2>4
<1> QED
  BY <1>4, <1>5

\* release takes its own entry out of the map; the others stay as they are.
LEMMA ReleaseTakes ==
    ASSUME IInv, NEW i \in Positions, NEW e \in 1 .. Len(heap),
           i \in DOMAIN entries, entries[i] = e, Release(i, e)
    PROVE  /\ DOMAIN entries' = DOMAIN entries \ {i}
           /\ \A j \in DOMAIN entries' :
                 entries'[j] = entries[j] /\ entries[j] # e /\ heap'[entries[j]] = heap[entries[j]]
           /\ Len(heap') = Len(heap)
           /\ \A h \in 1 .. Len(heap) : heap'[h].pos = heap[h].pos /\ heap'[h].err = heap[h].err
<1>1. /\ entries' = [j \in DOMAIN entries \ {i} |-> entries[j]]
      /\ heap' = [heap EXCEPT ![e] = Freed(heap[e])] /\ heap \in Seq(Entry)
  BY DEF Release, IInv, TypeOK
<1>2. \A j \in DOMAIN entries : entries[j] \in 1 .. Len(heap) /\ heap[entries[j]].pos = j
  BY DEF IInv, TypeOK, EntriesMatch
<1>3. \A j \in DOMAIN entries \ {i} : entries[j] # e
  BY <1>2
<1>4. heap[e] \in Entry
  BY <1>1
<1>5. Freed(heap[e]).pos = heap[e].pos /\ Freed(heap[e]).err = heap[e].err
  BY <1>4 DEF Freed, Entry
<1> QED
  BY <1>1, <1>2, <1>3, <1>5

\* The entries a release leaves in the map keep what they have buffered.
LEMMA ReleaseFilled ==
    ASSUME IInv, NEW i \in Positions, NEW e \in 1 .. Len(heap),
           i \in DOMAIN entries, entries[i] = e, Release(i, e),
           \A j \in DOMAIN entries : Filled(j)
    PROVE  \A j \in DOMAIN entries' : Filled(j)'
<1> SUFFICES ASSUME NEW j \in DOMAIN entries' PROVE Filled(j)'
  OBVIOUS
<1>1. /\ DOMAIN entries' = DOMAIN entries \ {i}
      /\ \A k \in DOMAIN entries' :
            entries'[k] = entries[k] /\ heap'[entries[k]] = heap[entries[k]]
  BY ReleaseTakes
<1>2. j \in DOMAIN entries /\ entries'[j] = entries[j] /\ heap'[entries'[j]] = heap[entries[j]]
  BY <1>1
<1>3. Filled(j)
  BY <1>2
<1> QED
  BY <1>2, <1>3 DEF Filled

\* An entry that failed, or whose body is closed, leaves the map.
LEMMA ReleaseKeepsPlan ==
    ASSUME KInv, WaitFailed \/ CopyDone \/ ClientWriteFailed
    PROVE  PlanOK' /\ BufferOK'
<1>1. UNCHANGED <<window, next, nextURL, call, found>>
  BY DEF WaitFailed, CopyDone, ClientWriteFailed, envVars, locateVars
<1>2. /\ next <= at /\ at \in 1 .. NFiles + 1 /\ next \in 1 .. NFiles + 1 /\ NFiles \in Nat
      /\ nextURL # NoUrl => next \in Positions /\ nextURL = Url[next]
      /\ \A j \in DOMAIN entries : Filled(j)
  BY ConfigAssumption DEF KInv, IInv, TypeOK, PlanOK, BufferOK
<1>3. CASE WaitFailed
  <2>1. /\ pc = "wait" /\ pc' = "live" /\ UNCHANGED <<at, body>> /\ body = NoBody
        /\ found \in Positions /\ found \in DOMAIN entries /\ entries[found] = held
        /\ held \in 1 .. Len(heap) /\ Release(found, held)
    BY <1>3 DEF WaitFailed, KInv, IInv, TypeOK, ControlOK, PlanOK, BufferOK, Holding, Calling
  <2>2. \A j \in DOMAIN entries' : Filled(j)'
    BY <1>2, <2>1, ReleaseFilled DEF KInv
  <2>3. Asked /\ found = next /\ Url[found] = Url[at]
    BY <2>1 DEF KInv, PlanOK, Calling
  <2>4. Asked'
    BY <1>1, <2>1, <2>3, AskedStays
  <2>5. PlanOK'
    BY <1>1, <1>2, <2>1, <2>3, <2>4 DEF PlanOK, Calling
  <2>6. BufferOK'
    BY <2>1, <2>2 DEF BufferOK, Holding
  <2> QED
    BY <2>5, <2>6
<1>4. CASE CopyDone \/ ClientWriteFailed
  <2>1. /\ CloseBody /\ body' = NoBody /\ pc' \in {"file", "failed"}
        /\ at' = at \/ at' = at + 1
    BY <1>4 DEF CopyDone, ClientWriteFailed, CloseBody, NextFile
  <2>2. next' <= at'
    BY <1>1, <1>2, <2>1
  <2>3. PlanOK'
    BY <1>1, <1>2, <2>1, <2>2 DEF PlanOK, Calling
  <2>4. \A j \in DOMAIN entries' : Filled(j)'
    <3>1. CASE body.from = "buffer"
      <4>1. /\ found \in Positions /\ found \in DOMAIN entries /\ entries[found] = held
            /\ held \in 1 .. Len(heap) /\ Release(found, held)
        BY <2>1, <3>1 DEF CloseBody, KInv, IInv, ControlOK, BufferOK, Holding
      <4> QED
        BY <1>2, <4>1, ReleaseFilled DEF KInv
    <3>2. CASE body.from # "buffer"
      BY <1>2, <2>1, <3>2 DEF CloseBody, prefetchVars, Filled
    <3> QED
      BY <3>1, <3>2
  <2>5. BufferOK'
    BY <2>1, <2>4 DEF BufferOK, Holding
  <2> QED
    BY <2>3, <2>5
<1> QED
  BY <1>3, <1>4

\* A prefetch that ends without an error has the whole of its own file.
LEMMA RunFills ==
    ASSUME KInv, NEW h \in 1 .. Len(heap), Run(h)
    PROVE  /\ UNCHANGED <<window, at, next, nextURL, entries, call, found, ahead, held,
                          pc, body, ctxDone, faults, served, used, cold, gapped>>
           /\ Len(heap') = Len(heap)
           /\ \A g \in 1 .. Len(heap) : g # h => heap'[g] = heap[g]
           /\ heap'[h].pos = heap[h].pos
           /\ heap[h].err => heap'[h].err
           /\ heap'[h].pc = "done" /\ ~heap'[h].err =>
                 heap'[h].of = Url[heap[h].pos] /\ heap'[h].len = Size[heap[h].pos]
<1>1. heap[h] \in Entry /\ heap \in Seq(Entry)
  BY DEF KInv, IInv, TypeOK
<1>2. ASSUME NEW e, RunEnds(h, e)
      PROVE  /\ UNCHANGED <<window, at, next, nextURL, entries, call, found, ahead, held,
                            pc, body, ctxDone, faults, served, used, cold, gapped>>
             /\ Len(heap') = Len(heap) /\ heap'[h] = e
             /\ \A g \in 1 .. Len(heap) : g # h => heap'[g] = heap[g]
  BY <1>1, <1>2 DEF RunEnds, envVars, locateVars, fetchVars
<1>3. CASE RunAnswered(h)
  <2>1. RunEnds(h, [heap[h] EXCEPT !.pc = "read"])
    BY <1>3 DEF RunAnswered
  <2>2. heap'[h] = [heap[h] EXCEPT !.pc = "read"]
    BY <2>1, <1>2
  <2>3. heap'[h].pc = "read" /\ heap'[h].pos = heap[h].pos /\ heap'[h].err = heap[h].err
    BY <1>1, <2>2 DEF Entry
  <2> QED
    BY <1>2, <2>1, <2>3
<1>4. Failed(heap[h]).err /\ Failed(heap[h]).pos = heap[h].pos
  BY <1>1 DEF Failed, Entry
<1>5. CASE RunEnds(h, Failed(heap[h]))
  BY <1>2, <1>4, <1>5
<1>6. CASE RunRead(h) /\ ~RunEnds(h, Failed(heap[h]))
  <2>1. PICK c : RunEnds(h, [heap[h] EXCEPT !.pc = "done", !.of = Url[heap[h].pos],
                                            !.len = Size[heap[h].pos], !.cap = c])
    BY <1>6 DEF RunRead
  <2>2. heap'[h] = [heap[h] EXCEPT !.pc = "done", !.of = Url[heap[h].pos],
                                   !.len = Size[heap[h].pos], !.cap = c]
    BY <2>1, <1>2
  <2>3. /\ heap'[h].of = Url[heap[h].pos] /\ heap'[h].len = Size[heap[h].pos]
        /\ heap'[h].pos = heap[h].pos /\ heap'[h].err = heap[h].err
    BY <1>1, <2>2 DEF Entry
  <2> QED
    BY <1>2, <2>1, <2>3
<1> QED
  BY <1>3, <1>5, <1>6 DEF Run, RunFailed, RunCancelled

LEMMA RunKeeps ==
    ASSUME KInv, NEW h \in 1 .. Len(heap), Run(h)
    PROVE  PlanOK' /\ BufferOK'
<1>1. /\ UNCHANGED <<window, at, next, nextURL, entries, call, found, ahead, held, pc, body>>
      /\ \A g \in 1 .. Len(heap) : g # h => heap'[g] = heap[g]
      /\ heap'[h].pc = "done" /\ ~heap'[h].err =>
            heap'[h].of = Url[heap[h].pos] /\ heap'[h].len = Size[heap[h].pos]
  BY RunFills
<1>2. \A j \in DOMAIN entries : entries[j] \in 1 .. Len(heap) /\ heap[entries[j]].pos = j
                                /\ Filled(j)
  BY DEF KInv, IInv, TypeOK, EntriesMatch, BufferOK
<1>3. \A j \in DOMAIN entries' : Filled(j)'
  BY <1>1, <1>2 DEF Filled
<1>4. Calling => Asked'
  BY <1>1, AskedStays DEF KInv, PlanOK
<1>5. PlanOK'
  BY <1>1, <1>4 DEF KInv, PlanOK, Calling
<1>6. BufferOK'
  BY <1>1, <1>3 DEF KInv, BufferOK, Holding
<1> QED
  BY <1>5, <1>6

LEMMA InitKInv == Init => KInv
<1> SUFFICES ASSUME Init PROVE KInv
  OBVIOUS
<1>1. IInv
  BY InitIInv
<1>2. PlanOK
  BY DEF Init, PlanOK, Calling
<1>3. BufferOK
  BY DEF Init, BufferOK, Holding
<1> QED
  BY <1>1, <1>2, <1>3 DEF KInv

LEMMA NextKInv == KInv /\ [Next]_vars => KInv'
<1> SUFFICES ASSUME KInv, [Next]_vars PROVE KInv'
  OBVIOUS
<1>1. IInv'
  BY NextIInv DEF KInv
<1>2. CASE FetchGap \/ FetchContent
  BY <1>1, <1>2, FetchKeeps DEF KInv
<1>3. CASE StartAhead
  BY <1>1, <1>3, AheadKeeps DEF KInv
<1>4. CASE Lookup \/ WaitBuffered \/ LiveAnswered
  BY <1>1, <1>4, CallKeeps DEF KInv
<1>5. CASE \/ SkipFile \/ Finish \/ WaitCancelled \/ LiveFailed \/ LiveCancelled
           \/ ClientLeaves \/ HandlerReturns \/ UNCHANGED vars
  BY <1>1, <1>5, IdleKeeps DEF KInv
<1>6. CASE WaitFailed \/ CopyDone \/ ClientWriteFailed
  BY <1>1, <1>6, ReleaseKeepsPlan DEF KInv
<1>7. CASE \E h \in 1 .. Len(heap) : Run(h)
  BY <1>1, <1>7, RunKeeps DEF KInv
<1> QED
  BY <1>2, <1>3, <1>4, <1>5, <1>6, <1>7 DEF Next, Writer, Terminated

\* prefetch.go:125-141: the scan never loses the plan, whatever is asked for twice
\* and whichever paths repeat.
THEOREM PlanKept == Spec => []PlanNeverLost
<1>1. KInv => PlanNeverLost
  <2> SUFFICES ASSUME KInv, Calling
               PROVE  found \in Positions /\ found <= at /\ Url[found] = call.url
    BY DEF PlanNeverLost, Calling
  <2> QED
    BY DEF KInv, PlanOK, Asked
<1> QED
  BY <1>1, InitKInv, NextKInv, PTL DEF Spec

\* Files of one path are one file.
OnePathOneFile == \A i, j \in Positions : Url[i] = Url[j] => Size[i] = Size[j]

\* prefetch.go:147-182: what a buffer hands the writer is all of the file asked for,
\* whatever lengths upstream has sent.
THEOREM BodyRight == ASSUME OnePathOneFile PROVE Spec => []BodyIsTheFile
<1>1. ASSUME KInv, pc = "copy", body.from = "buffer"
      PROVE  body.of = Url[at] /\ body.len = Size[at] /\ ~IsGap
  <2>1. /\ body.of = Url[at] /\ body.len = Size[found]
        /\ Whole(call.begin, call.end, Size[found])
    BY <1>1 DEF KInv, BufferOK, Holding
  <2>2. found \in Positions /\ at \in Positions /\ Url[found] = Url[at] /\ Asked /\ TypeOK
    BY <1>1 DEF KInv, IInv, ControlOK, PlanOK, Calling
  <2>3. Size[found] = Size[at]
    BY <2>2 DEF OnePathOneFile
  <2> QED
    BY <2>1, <2>2, <2>3, GapOrWhole
<1>2. KInv => BodyIsTheFile
  BY <1>1 DEF BodyIsTheFile
<1> QED
  BY <1>2, InitKInv, NextKInv, PTL DEF Spec

\* prefetch.go:170-175: no prefetch's failure costs the archive.
THEOREM FailuresOwn == Spec => []FailuresAreOwn
<1>1. Init => FailuresAreOwn
  BY DEF Init, FailuresAreOwn
<1>2. ASSUME FailuresAreOwn, [Next]_vars PROVE FailuresAreOwn'
  <2>1. CASE \E h \in 1 .. Len(heap) : Run(h)
    BY <1>2, <2>1 DEF FailuresAreOwn, Run, RunAnswered, RunFailed, RunCancelled, RunRead, RunEnds
  <2>2. CASE LiveFailed \/ LiveCancelled
    BY <1>2, <2>2 DEF FailuresAreOwn, LiveFailed, LiveCancelled, AfterFailedRead
  <2>3. CASE ClientWriteFailed \/ WaitCancelled
    BY <1>2, <2>3 DEF FailuresAreOwn, ClientWriteFailed, WaitCancelled
  <2>4. CASE CopyDone
    BY <1>2, <2>4 DEF FailuresAreOwn, CopyDone, NextFile
  <2>5. CASE \/ SkipFile \/ FetchGap \/ FetchContent \/ Finish \/ StartAhead \/ Lookup
             \/ WaitFailed \/ WaitBuffered \/ LiveAnswered
    BY <1>2, <2>5 DEF FailuresAreOwn, SkipFile, FetchGap, FetchContent, EnterFetch, Finish,
                      StartAhead, Lookup, WaitFailed, WaitBuffered, LiveAnswered
  <2>6. CASE ClientLeaves \/ HandlerReturns \/ UNCHANGED vars
    BY <1>2, <2>6 DEF FailuresAreOwn, ClientLeaves, HandlerReturns, vars
  <2> QED
    BY <1>2, <2>1, <2>2, <2>3, <2>4, <2>5, <2>6 DEF Next, Writer, Terminated
<1> QED
  BY <1>1, <1>2, PTL DEF Spec
-----------------------------------------------------------------------------
(* The read-ahead is transparent: Prefetch implements PlainFetch.          *)

Phase == IF pc \in {"ahead", "wait", "live"} THEN "fetching" ELSE pc
InGap == Calling /\ IsGap

LEMMA PlainCut == \A i : Plain!Cut(i) = Cut(i)
BY DEF Plain!Cut, Cut, Plain!Clip, Clip, Plain!Outside, Outside, Plain!CutsLeft, CutsLeft,
       Plain!CutsRight, CutsRight, Plain!Unbounded, Unbounded

\* What PlainFetch sees of a state.
LEMMA Stutters ==
    ASSUME UNCHANGED <<window, ctxDone, faults, at>>, Phase' = Phase, InGap' = InGap,
           body'.of = body.of
    PROVE  UNCHANGED Plain!vars
BY DEF Plain!vars, Phase, InGap, Calling

\* A fetch begins, for the content of the file or for the gap in front of it.
LEMMA FetchMaps ==
    ASSUME KInv, KInv', FetchGap \/ FetchContent
    PROVE  Plain!Next
<1>1. /\ pc = "file" /\ at <= NFiles /\ ~Cut(at).skip /\ at \in Positions /\ TypeOK
      /\ UNCHANGED <<window, ctxDone, faults, at, body>>
  <2>1. /\ pc = "file" /\ at <= NFiles /\ ~Cut(at).skip
        /\ UNCHANGED <<window, ctxDone, faults, at, body>>
    BY DEF FetchGap, FetchContent, envVars
  <2>2. TypeOK /\ at \in 1 .. NFiles + 1
    BY DEF KInv, IInv, TypeOK
  <2>3. at \in Positions
    BY <2>1, <2>2, ConfigAssumption DEF Positions
  <2> QED
    BY <2>1, <2>2, <2>3
<1>2. found' # 0
  <2>1. PICK c : EnterFetch(c) /\ c.url = Url[at]
    <3>1. CASE FetchGap
      BY <3>1 DEF FetchGap
    <3>2. CASE FetchContent
      BY <3>2 DEF FetchContent, ContentCall
    <3> QED
      BY <3>1, <3>2
  <2>2. found' \in Positions
    BY <1>1, <2>1, LocateFinds DEF EnterFetch
  <2> QED
    BY <2>2 DEF Positions
<1>3. pc' = "ahead"
  BY <1>2 DEF FetchGap, FetchContent, EnterFetch
<1>4. Cut(at)' = Cut(at) /\ Cut(at).b \in Nat
  BY <1>1, CutInside DEF Cut
<1>5. InGap' \in (IF GapFetches /\ Cut(at).b > 0 THEN BOOLEAN ELSE {FALSE})
  <2>1. CASE FetchGap
    BY <1>3, <2>1 DEF FetchGap, InGap, Calling, IsGap
  <2>2. CASE FetchContent
    <3>1. call'.begin = Cut(at).b
      BY <2>2 DEF FetchContent, EnterFetch, ContentCall
    <3>2. ~(call'.begin < Cut(at)'.b)
      BY <1>4, <3>1
    <3>3. InGap' = FALSE
      BY <1>3, <3>2 DEF InGap, IsGap
    <3> QED
      BY <3>3
  <2> QED
    BY <2>1, <2>2
<1>6. Plain!Fetch
  BY <1>1, <1>3, <1>5, PlainCut DEF Plain!Fetch, Plain!Wanted, InGap, Calling
<1> QED
  BY <1>6 DEF Plain!Next

\* The answer: a body of the file asked for, from the buffer or from upstream.
LEMMA AnswerMaps ==
    ASSUME KInv, KInv', WaitBuffered \/ LiveAnswered
    PROVE  Plain!Next
<1>1. /\ pc \in {"wait", "live"} /\ pc' = "copy"
      /\ UNCHANGED <<window, ctxDone, faults, at, call>>
  BY DEF WaitBuffered, LiveAnswered, envVars, fetchVars
<1>2. body'.of = Url[at]
  BY <1>1 DEF KInv, BufferOK
<1>3. IsGap' = IsGap
  BY <1>1 DEF IsGap, Cut
<1>4. Plain!Answer
  BY <1>1, <1>2, <1>3 DEF Plain!Answer
<1> QED
  BY <1>4 DEF Plain!Next

\* A read that fails: upstream's fault, or the cancelled context's.
LEMMA FailMaps ==
    ASSUME OnePathOneFile, KInv, WaitCancelled \/ LiveFailed \/ LiveCancelled
    PROVE  Plain!Next
<1>1. /\ Calling /\ pc \in {"wait", "live", "copy"} /\ body'.of = NoUrl
      /\ UNCHANGED <<window, ctxDone, at>>
  BY DEF WaitCancelled, LiveFailed, LiveCancelled, envVars, Calling, NoBody, KInv, PlanOK
<1>2. /\ pc' = IF IsGap THEN "file" ELSE "failed"
      /\ \/ LiveFaults /\ faults' = IF IsGap THEN faults ELSE faults \cup {"live"}
         \/ ctxDone /\ UNCHANGED faults
  <2>1. CASE WaitCancelled
    <3>1. pc = "wait" /\ ctxDone /\ UNCHANGED faults /\ pc' = "failed"
      BY <2>1 DEF WaitCancelled
    <3>2. /\ Whole(call.begin, call.end, Size[found]) /\ Url[found] = Url[at] /\ Asked
          /\ found \in Positions /\ at \in Positions /\ TypeOK
      BY <3>1 DEF KInv, IInv, ControlOK, PlanOK, BufferOK, Holding, Calling
    <3>3. Size[found] = Size[at]
      BY <3>2 DEF OnePathOneFile
    <3>4. ~IsGap
      BY <3>2, <3>3, GapOrWhole
    <3> QED
      BY <3>1, <3>4
  <2>2. CASE LiveFailed \/ LiveCancelled
    BY <2>2 DEF LiveFailed, LiveCancelled, AfterFailedRead
  <2> QED
    BY <2>1, <2>2
<1>3. Plain!Fail
  BY <1>1, <1>2 DEF Plain!Fail, Calling
<1> QED
  BY <1>3 DEF Plain!Next

\* The body is through, or the client is.
LEMMA CopyMaps ==
    ASSUME KInv, CopyDone \/ ClientWriteFailed
    PROVE  Plain!Next
<1>1. UNCHANGED <<window, ctxDone, call>> /\ body'.of = NoUrl
  BY DEF CopyDone, ClientWriteFailed, CloseBody, NoBody, envVars
<1>2. CASE CopyDone
  <2>1. /\ pc = "copy" /\ pc' = "file" /\ at' = (IF IsGap THEN at ELSE at + 1)
        /\ UNCHANGED faults
    BY <1>2 DEF CopyDone, NextFile
  <2>2. Plain!Copied
    BY <1>1, <2>1 DEF Plain!Copied
  <2> QED
    BY <2>2 DEF Plain!Next
<1>3. CASE ClientWriteFailed
  <2>1. /\ ClientMayLeave /\ pc' = "failed" /\ faults' = faults \cup {"client"} /\ at' = at
        /\ \/ pc = "copy" /\ ~IsGap
           \/ pc = "file" /\ at <= NFiles /\ ~Cut(at).skip
    BY <1>3 DEF ClientWriteFailed
  <2>2. Plain!ClientFails
    BY <1>1, <2>1, PlainCut DEF Plain!ClientFails, Plain!Wanted
  <2> QED
    BY <2>2 DEF Plain!Next
<1> QED
  BY <1>2, <1>3

\* The steps outside of fetches.
LEMMA OutsideMaps ==
    ASSUME KInv, SkipFile \/ Finish \/ ClientLeaves \/ HandlerReturns
    PROVE  Plain!Next
<1>1. CASE SkipFile
  <2>1. Plain!Skip
    BY <1>1, PlainCut DEF SkipFile, Plain!Skip, envVars
  <2> QED
    BY <2>1 DEF Plain!Next
<1>2. CASE Finish
  <2>1. Plain!Finish
    BY <1>2 DEF Finish, Plain!Finish, envVars
  <2> QED
    BY <2>1 DEF Plain!Next
<1>3. CASE ClientLeaves \/ HandlerReturns
  <2>1. /\ ~ctxDone /\ ctxDone' = TRUE /\ (ClientMayLeave \/ pc \in {"finished", "failed"})
        /\ UNCHANGED <<window, faults, at, pc, call, body>>
    BY <1>3 DEF ClientLeaves, HandlerReturns, envVars, fetchVars, Ended
  <2>2. IsGap' = IsGap
    BY <2>1 DEF IsGap, Cut
  <2>3. Plain!Cancel
    BY <2>1, <2>2 DEF Plain!Cancel
  <2> QED
    BY <2>3 DEF Plain!Next
<1> QED
  BY <1>1, <1>2, <1>3

\* Starting prefetches, looking an entry up, giving a failed one up, and whatever the
\* prefetches do by themselves: PlainFetch sees one fetch in progress.
LEMMA AheadHidden ==
    ASSUME KInv,
           \/ StartAhead \/ Lookup \/ WaitFailed \/ UNCHANGED vars
           \/ \E h \in 1 .. Len(heap) : Run(h)
    PROVE  UNCHANGED Plain!vars
<1>1. /\ UNCHANGED <<window, ctxDone, faults, at, call, body>>
      /\ UNCHANGED pc \/ (pc \in {"ahead", "wait"} /\ pc' \in {"wait", "live"})
  <2>1. CASE StartAhead \/ Lookup \/ WaitFailed
    BY <2>1 DEF StartAhead, Lookup, WaitFailed, envVars
  <2>2. CASE UNCHANGED vars
    BY <2>2 DEF vars, envVars, fetchVars
  <2>3. CASE \E h \in 1 .. Len(heap) : Run(h)
    BY <2>3, RunFills
  <2> QED
    BY <2>1, <2>2, <2>3
<1>2. IsGap' = IsGap
  BY <1>1 DEF IsGap, Cut
<1>3. Phase' = Phase /\ InGap' = InGap
  BY <1>1, <1>2 DEF Phase, InGap, Calling
<1> QED
  BY <1>1, <1>3, Stutters

\* prefetch.go:148-150: the writer cannot tell a Prefetcher from the plain fetcher.
THEOREM ImplementsPlain == ASSUME OnePathOneFile PROVE Spec => Transparent
<1>1. Init => Plain!Init
  BY DEF Init, Plain!Init, NoBody
<1>2. ASSUME KInv, KInv', [Next]_vars PROVE [Plain!Next]_(Plain!vars)
  <2>1. CASE FetchGap \/ FetchContent
    BY <1>2, <2>1, FetchMaps
  <2>2. CASE WaitBuffered \/ LiveAnswered
    BY <1>2, <2>2, AnswerMaps
  <2>3. CASE WaitCancelled \/ LiveFailed \/ LiveCancelled
    BY <1>2, <2>3, FailMaps
  <2>4. CASE CopyDone \/ ClientWriteFailed
    BY <1>2, <2>4, CopyMaps
  <2>5. CASE SkipFile \/ Finish \/ ClientLeaves \/ HandlerReturns
    BY <1>2, <2>5, OutsideMaps
  <2>6. CASE \/ StartAhead \/ Lookup \/ WaitFailed \/ UNCHANGED vars
             \/ \E h \in 1 .. Len(heap) : Run(h)
    BY <1>2, <2>6, AheadHidden
  <2> QED
    BY <1>2, <2>1, <2>2, <2>3, <2>4, <2>5, <2>6 DEF Next, Writer, Terminated
<1> QED
  BY <1>1, <1>2, InitKInv, NextKInv, PTL DEF Spec, Transparent, Plain!Spec
-----------------------------------------------------------------------------
(* Nothing is fetched twice and nothing is left behind, in plans without   *)
(* repeated paths.                                                         *)

DistinctUrls == \A i, j \in Positions : Url[i] = Url[j] => i = j

LEMMA Numbers ==
    ASSUME TypeOK
    PROVE  /\ next \in Nat /\ at \in Nat /\ Depth \in Nat /\ Len(heap) \in Nat
           /\ Positions \subseteq Nat /\ DOMAIN entries \subseteq Nat
           /\ \A h \in 1 .. Len(heap) : heap[h].pos \in Positions /\ heap[h].pos \in Nat
<1>1. NFiles \in Nat /\ Depth \in Nat
  BY ConfigAssumption
<1>2. Positions \subseteq Nat
  BY <1>1 DEF Positions
<1>3. ASSUME NEW h \in 1 .. Len(heap) PROVE heap[h].pos \in Positions
  <2>1. heap[h] \in Entry
    BY DEF TypeOK
  <2> QED
    BY <2>1 DEF Entry
<1>4. next \in 1 .. NFiles + 1 /\ at \in 1 .. NFiles + 1 /\ DOMAIN entries \subseteq Positions
  BY DEF TypeOK
<1>5. Len(heap) \in Nat
  BY DEF TypeOK
<1>6. next \in Nat /\ at \in Nat
  BY <1>1, <1>4
<1> QED
  BY <1>1, <1>2, <1>3, <1>4, <1>5, <1>6

\* The scan then finds the very file the writer is at.
LEMMA FoundIsAt ==
    ASSUME DistinctUrls, KInv, Calling
    PROVE  /\ found = at /\ next = at /\ at \in Positions /\ Asked /\ TypeOK
           /\ Positions \subseteq Nat
BY ConfigAssumption DEF DistinctUrls, KInv, IInv, ControlOK, PlanOK, Calling, Positions

\* The parts that LInv adds for a state in which no fetch is live.
LEMMA SettledKeeps ==
    ASSUME LInv, pc \notin {"live", "copy", "failed"} \/ IsGap, pc # "failed",
           UNCHANGED <<window, entries, heap>>,
           next' \in Nat, next <= next', at' \in Nat, at <= at',
           \A j \in DOMAIN entries : j >= at => j >= at' \/ Cut(j).partial
    PROVE  Started' /\ OnceEach' /\ NoLeak'
<1>1. /\ next \in Nat /\ at \in Nat /\ DOMAIN entries \subseteq Nat /\ Depth \in Nat
      /\ \A h \in 1 .. Len(heap) : heap[h].pos \in Nat
  BY Numbers DEF LInv, KInv, IInv
<1>2. Started'
  BY <1>1 DEF LInv, Started
<1>3. OnceEach'
  BY DEF LInv, OnceEach
<1>4. NoLeak'
  <2> SUFFICES ASSUME NEW j \in DOMAIN entries
               PROVE  j <= next' + Depth /\ (j >= at' \/ Cut(j)'.partial)
    BY DEF NoLeak
  <2>1. j <= next + Depth /\ (j >= at \/ Cut(j).partial)
    BY DEF LInv, NoLeak
  <2>2. Cut(j)' = Cut(j)
    BY DEF Cut
  <2> QED
    BY <1>1, <2>1, <2>2
<1> QED
  BY <1>2, <1>3, <1>4

\* The writer passes a file over, begins a fetch, finishes, gives a gap up.
LEMMA PassKeeps ==
    ASSUME LInv, KInv', SkipFile \/ FetchGap \/ FetchContent \/ Finish
    PROVE  LInv'
<1>1. /\ pc = "file" /\ pc' \in {"file", "ahead", "live", "finished"}
      /\ UNCHANGED <<window, entries, heap>>
  BY DEF SkipFile, FetchGap, FetchContent, EnterFetch, Finish, envVars, prefetchVars
<1>2. /\ next \in Nat /\ at \in Nat /\ next' \in Nat /\ at' \in Nat
      /\ DOMAIN entries \subseteq Nat /\ TypeOK
  <2>1. TypeOK /\ next \in Nat /\ at \in Nat /\ DOMAIN entries \subseteq Nat
    BY Numbers DEF LInv, KInv, IInv
  <2>2. NFiles \in Nat /\ next' \in 1 .. NFiles + 1 /\ at' \in 1 .. NFiles + 1
    BY ConfigAssumption DEF KInv, IInv, TypeOK
  <2>3. next' \in Nat /\ at' \in Nat
    BY <2>2
  <2> QED
    BY <2>1, <2>3
<1>3. next <= next' /\ pc' # "live"
  <2>1. CASE SkipFile \/ Finish
    BY <1>2, <2>1 DEF SkipFile, Finish, locateVars
  <2>2. CASE FetchGap \/ FetchContent
    <3>1. PICK c : EnterFetch(c) /\ c.url = Url[at]
      <4>1. CASE FetchGap
        BY <4>1 DEF FetchGap
      <4>2. CASE FetchContent
        BY <4>2 DEF FetchContent, ContentCall
      <4> QED
        BY <2>2, <4>1, <4>2
    <3>2. at \in Positions
      BY <1>2, <2>2, ConfigAssumption DEF FetchGap, FetchContent, TypeOK, Positions
    <3>3. next <= next' /\ found' \in Positions
      BY <3>1, <3>2, LocateFinds DEF EnterFetch, LInv
    <3>4. found' # 0
      BY <3>3 DEF Positions
    <3> QED
      BY <3>1, <3>3, <3>4 DEF EnterFetch
  <2> QED
    BY <2>1, <2>2
<1>4. at <= at' /\ \A j \in DOMAIN entries : j >= at => j >= at' \/ Cut(j).partial
  <2>1. CASE SkipFile
    <3>1. at' = at + 1 /\ at \in Positions /\ Cut(at).skip
      BY <1>2, <2>1, ConfigAssumption DEF SkipFile, TypeOK, Positions
    <3>2. Cut(at).partial
      BY <1>2, <3>1, CutInside
    <3> QED
      BY <1>2, <3>1, <3>2
  <2>2. CASE FetchGap \/ FetchContent \/ Finish
    BY <1>2, <2>2 DEF FetchGap, FetchContent, Finish
  <2> QED
    BY <2>1, <2>2
<1>5. Started' /\ OnceEach' /\ NoLeak'
  BY <1>1, <1>2, <1>3, <1>4, SettledKeeps
<1>6. LiveWhole'
  BY <1>1, <1>3 DEF LiveWhole
<1> QED
  BY <1>5, <1>6 DEF LInv

\* One iteration of startAhead: the file started has no record yet, for it is in
\* front of the writer and not in the map.
LEMMA AheadOnce ==
    ASSUME DistinctUrls, LInv, KInv', StartAhead
    PROVE  LInv'
<1>1. /\ pc = "ahead" /\ pc' = "ahead" /\ UNCHANGED <<window, next, at, call>>
      /\ ahead <= found + Depth /\ ahead <= NFiles
  BY DEF StartAhead, envVars, locateVars
<1>2. found = at /\ next = at /\ at \in Positions /\ Positions \subseteq Nat /\ TypeOK
  BY <1>1, FoundIsAt DEF LInv, Calling
<1>3. ahead > at /\ ahead \in Positions /\ Depth \in Nat
  BY <1>1, <1>2, ConfigAssumption DEF LInv, KInv, PlanOK, TypeOK, Positions
<1>4. LiveWhole'
  BY <1>1 DEF LiveWhole
<1>5. CASE Qualifies(ahead)
  <2>1. /\ heap' = Append(heap, NewEntry(ahead)) /\ heap \in Seq(Entry)
        /\ entries' = [j \in DOMAIN entries \cup {ahead} |->
                          IF j = ahead THEN Len(heap) + 1 ELSE entries[j]]
        /\ ahead \notin DOMAIN entries
    BY <1>2, <1>5 DEF StartAhead, Qualifies, TypeOK
  <2>2. /\ Len(heap') = Len(heap) + 1 /\ heap'[Len(heap) + 1].pos = ahead
        /\ \A h \in 1 .. Len(heap) : heap'[h] = heap[h] /\ heap[h].pos \in Positions
    <3>1. NewEntry(ahead).pos = ahead
      BY DEF NewEntry
    <3> QED
      BY <1>2, <2>1, <3>1, Numbers
  <2>3. /\ DOMAIN entries' = DOMAIN entries \cup {ahead}
        /\ entries'[ahead] = Len(heap) + 1
        /\ \A j \in DOMAIN entries : entries'[j] = entries[j]
    BY <2>1
  <2>4. \A h \in 1 .. Len(heap) :
            heap[h].pos # ahead /\ (heap[h].pos < at \/
               (heap[h].pos \in DOMAIN entries /\ entries[heap[h].pos] = h))
    BY <1>1, <1>2, <1>3, <2>1, <2>2 DEF LInv, Started
  <2>5. Len(heap) \in Nat
    BY <2>1
  <2>6. \A h \in 1 .. Len(heap') : h \in 1 .. Len(heap) \/ h = Len(heap) + 1
    BY <2>2, <2>5
  <2>7. Started'
    <3> SUFFICES ASSUME NEW h \in 1 .. Len(heap')
                 PROVE  \/ heap'[h].pos \in DOMAIN entries' /\ entries'[heap'[h].pos] = h
                        \/ heap'[h].pos < at
      BY <1>1 DEF Started
    <3>1. CASE h \in 1 .. Len(heap)
      BY <2>2, <2>3, <2>4, <3>1
    <3>2. CASE h = Len(heap) + 1
      BY <2>2, <2>3, <3>2
    <3> QED
      BY <2>6, <3>1, <3>2
  <2>8. OnceEach'
    BY <2>2, <2>4, <2>6 DEF LInv, OnceEach
  <2>9. NoLeak'
    <3> SUFFICES ASSUME NEW j \in DOMAIN entries'
                 PROVE  j <= next + Depth /\ (j >= at \/ Cut(j)'.partial)
      BY <1>1 DEF NoLeak
    <3>1. CASE j = ahead
      BY <1>1, <1>2, <1>3, <3>1
    <3>2. CASE j \in DOMAIN entries
      BY <1>1, <3>2 DEF LInv, NoLeak, Cut
    <3> QED
      BY <2>3, <3>1, <3>2
  <2> QED
    BY <1>4, <2>7, <2>8, <2>9 DEF LInv
<1>6. CASE ~Qualifies(ahead)
  <2>1. UNCHANGED <<entries, heap>>
    BY <1>6 DEF StartAhead, prefetchVars
  <2>2. next' \in Nat /\ next <= next' /\ at' \in Nat /\ at <= at'
    BY <1>1, <1>2
  <2>3. Started' /\ OnceEach' /\ NoLeak'
    BY <1>1, <2>1, <2>2, SettledKeeps
  <2> QED
    BY <1>4, <2>3 DEF LInv
<1> QED
  BY <1>5, <1>6

\* The steps of a fetch that leave the map alone.
LEMMA CallOnce ==
    ASSUME DistinctUrls, LInv, KInv', Lookup \/ WaitBuffered \/ LiveAnswered
    PROVE  LInv'
<1>1. /\ UNCHANGED <<window, next, at, call, found, heap, entries>> /\ Calling
      /\ pc' \in {"wait", "live", "copy"}
  BY DEF Lookup, WaitBuffered, LiveAnswered, envVars, locateVars, prefetchVars, fetchVars, Calling
<1>2. found = at /\ next = at /\ at \in Positions /\ Positions \subseteq Nat /\ TypeOK
  BY <1>1, FoundIsAt DEF LInv
<1>3. IsGap' = IsGap
  BY <1>1 DEF IsGap, Cut
<1>4. Started'
  <2>1. pc # "failed" /\ pc \in {"live", "copy"} => pc' \in {"live", "copy"}
    BY DEF Lookup, WaitBuffered, LiveAnswered
  <2> QED
    BY <1>1, <1>3, <2>1 DEF LInv, Started, Calling
<1>5. OnceEach' /\ NoLeak'
  BY <1>1 DEF LInv, OnceEach, NoLeak, Calling, Cut
<1>6. LiveWhole'
  <2>1. CASE Lookup
    BY <1>1, <1>2, <2>1 DEF Lookup, LiveWhole
  <2>2. CASE WaitBuffered
    BY <2>2 DEF WaitBuffered, LiveWhole
  <2>3. CASE LiveAnswered
    <3>1. pc = "live" /\ body.from # "buffer"
      BY <2>3 DEF LiveAnswered, LInv, KInv, PlanOK, NoBody
    <3> QED
      BY <1>1, <3>1 DEF LInv, LiveWhole
  <2> QED
    BY <2>1, <2>2, <2>3
<1> QED
  BY <1>4, <1>5, <1>6 DEF LInv

\* What is released, and whose it is.
LEMMA HeldIsAt ==
    ASSUME DistinctUrls, KInv, Holding
    PROVE  /\ found = at /\ at \in DOMAIN entries /\ entries[at] = held
           /\ held \in 1 .. Len(heap) /\ ~IsGap
<1>1. Calling
  BY DEF Holding, Calling
<1>2. found = at /\ at \in Positions /\ Asked /\ TypeOK
  BY <1>1, FoundIsAt
<1>3. found \in DOMAIN entries /\ entries[found] = held /\ Whole(call.begin, call.end, Size[found])
  BY DEF KInv, BufferOK, Holding
<1> QED
  BY <1>2, <1>3, GapOrWhole DEF TypeOK

\* A failed entry leaves the map; its record remains, as the failed one of the file
\* the writer now fetches live.
LEMMA GivenUp ==
    ASSUME DistinctUrls, LInv, KInv', WaitFailed
    PROVE  LInv'
<1>1. /\ pc = "wait" /\ pc' = "live" /\ heap[held].err /\ Release(found, held)
      /\ UNCHANGED <<window, next, at, call, body>>
  BY DEF WaitFailed, envVars, locateVars
<1>2. /\ found = at /\ at \in DOMAIN entries /\ entries[at] = held
      /\ held \in 1 .. Len(heap) /\ ~IsGap /\ at \in Positions
  BY <1>1, HeldIsAt, FoundIsAt DEF LInv, Holding, Calling
<1>3. /\ DOMAIN entries' = DOMAIN entries \ {at}
      /\ \A j \in DOMAIN entries' : entries'[j] = entries[j]
      /\ Len(heap') = Len(heap)
      /\ \A h \in 1 .. Len(heap) : heap'[h].pos = heap[h].pos /\ heap'[h].err = heap[h].err
  BY <1>1, <1>2, ReleaseTakes DEF LInv, KInv
<1>4. IsGap' = IsGap
  BY <1>1 DEF IsGap, Cut
<1>5. Started'
  <2> SUFFICES ASSUME NEW h \in 1 .. Len(heap)
               PROVE  \/ heap'[h].pos \in DOMAIN entries' /\ entries'[heap'[h].pos] = h
                      \/ heap'[h].pos < at
                      \/ heap'[h].pos = at /\ heap'[h].err
    BY <1>1, <1>2, <1>3, <1>4 DEF Started
  <2>1. \/ heap[h].pos \in DOMAIN entries /\ entries[heap[h].pos] = h
        \/ heap[h].pos < at
    BY <1>1 DEF LInv, Started
  <2> QED
    BY <1>1, <1>2, <1>3, <2>1
<1>6. OnceEach'
  BY <1>3 DEF LInv, OnceEach
<1>7. NoLeak'
  BY <1>1, <1>3 DEF LInv, NoLeak, Cut
<1>8. LiveWhole'
  BY <1>1, <1>3 DEF LiveWhole
<1> QED
  BY <1>5, <1>6, <1>7, <1>8 DEF LInv

\* The body is through: a buffered one leaves the map with the file; a file fetched
\* live although it was not cut had no entry.
LEMMA CopiedOnce ==
    ASSUME DistinctUrls, LInv, KInv', CopyDone
    PROVE  LInv'
<1>1. /\ pc = "copy" /\ pc' = "file" /\ UNCHANGED <<window, next, call>> /\ CloseBody
      /\ at' = IF IsGap THEN at ELSE at + 1
  BY DEF CopyDone, NextFile, envVars, locateVars
<1>2. /\ found = at /\ next = at /\ at \in Positions /\ Positions \subseteq Nat
      /\ Asked /\ TypeOK /\ Calling
  BY <1>1, FoundIsAt DEF LInv, Calling
<1>3. LiveWhole'
  BY <1>1 DEF LiveWhole
<1>4. DOMAIN entries \subseteq Nat /\ \A h \in 1 .. Len(heap) : heap[h].pos \in Nat
  BY <1>2, Numbers
<1>5. CASE IsGap
  <2>1. body.from # "buffer"
    BY <1>1, <1>5, HeldIsAt DEF LInv, Holding
  <2>2. UNCHANGED <<entries, heap>> /\ at' = at
    BY <1>1, <1>5, <2>1 DEF CloseBody, prefetchVars
  <2>3. Started' /\ OnceEach' /\ NoLeak'
    BY <1>1, <1>2, <1>5, <2>2, SettledKeeps
  <2> QED
    BY <1>3, <2>3 DEF LInv
<1>6. CASE ~IsGap /\ body.from = "buffer"
  <2>1. /\ at \in DOMAIN entries /\ entries[at] = held /\ held \in 1 .. Len(heap)
        /\ Release(at, held)
    BY <1>1, <1>6, HeldIsAt DEF LInv, Holding, CloseBody
  <2>2. /\ DOMAIN entries' = DOMAIN entries \ {at}
        /\ \A j \in DOMAIN entries' : entries'[j] = entries[j]
        /\ Len(heap') = Len(heap)
        /\ \A h \in 1 .. Len(heap) : heap'[h].pos = heap[h].pos
    BY <1>2, <2>1, ReleaseTakes DEF LInv, KInv
  <2>3. at' = at + 1
    BY <1>1, <1>6
  <2>4. Started'
    <3> SUFFICES ASSUME NEW h \in 1 .. Len(heap)
                 PROVE  \/ heap'[h].pos \in DOMAIN entries' /\ entries'[heap'[h].pos] = h
                        \/ heap'[h].pos < at + 1
      BY <1>1, <2>2, <2>3 DEF Started
    <3>1. \/ heap[h].pos \in DOMAIN entries /\ entries[heap[h].pos] = h
          \/ heap[h].pos <= at
      BY <1>1, <1>2, <1>4 DEF LInv, Started
    <3> QED
      BY <1>2, <1>4, <2>2, <3>1
  <2>5. OnceEach'
    BY <2>2 DEF LInv, OnceEach
  <2>6. NoLeak'
    <3> SUFFICES ASSUME NEW j \in DOMAIN entries'
                 PROVE  j <= next + Depth /\ (j >= at + 1 \/ Cut(j)'.partial)
      BY <1>1, <2>3 DEF NoLeak
    <3>1. j \in DOMAIN entries /\ j # at /\ Cut(j)' = Cut(j)
      BY <1>1, <2>2 DEF Cut
    <3>2. j <= next + Depth /\ (j >= at \/ Cut(j).partial)
      BY <1>1, <3>1 DEF LInv, NoLeak
    <3> QED
      BY <1>2, <1>4, <3>1, <3>2
  <2> QED
    BY <1>3, <2>4, <2>5, <2>6 DEF LInv
<1>7. CASE ~IsGap /\ body.from # "buffer"
  <2>1. UNCHANGED <<entries, heap>> /\ at' = at + 1
    BY <1>1, <1>7 DEF CloseBody, prefetchVars
  <2>2. Cut(at).partial \/ at \notin DOMAIN entries
    BY <1>1, <1>2, <1>7, GapOrWhole DEF LInv, LiveWhole
  <2>3. Started'
    BY <1>1, <1>2, <1>4, <2>1 DEF LInv, Started
  <2>4. OnceEach'
    BY <2>1 DEF LInv, OnceEach
  <2>5. NoLeak'
    <3> SUFFICES ASSUME NEW j \in DOMAIN entries
                 PROVE  j <= next + Depth /\ (j >= at + 1 \/ Cut(j)'.partial)
      BY <1>1, <2>1 DEF NoLeak
    <3>1. j <= next + Depth /\ (j >= at \/ Cut(j).partial) /\ Cut(j)' = Cut(j)
      BY <1>1 DEF LInv, NoLeak, Cut
    <3> QED
      BY <1>2, <1>4, <2>2, <3>1
  <2> QED
    BY <1>3, <2>3, <2>4, <2>5 DEF LInv
<1> QED
  BY <1>5, <1>6, <1>7

\* A read that fails: the archive is given up, or only the gap.
LEMMA EndOnce ==
    ASSUME DistinctUrls, LInv, KInv',
           WaitCancelled \/ LiveFailed \/ LiveCancelled \/ ClientWriteFailed
    PROVE  LInv'
<1>1. CASE pc' = "failed"
  <2>1. Started' /\ LiveWhole' /\ NoLeak'
    BY <1>1 DEF Started, LiveWhole, NoLeak
  <2>2. Len(heap') = Len(heap) /\ \A h \in 1 .. Len(heap) : heap'[h].pos = heap[h].pos
    <3>1. CASE WaitCancelled \/ LiveFailed \/ LiveCancelled
      BY <3>1 DEF WaitCancelled, LiveFailed, LiveCancelled, prefetchVars
    <3>2. CASE ClientWriteFailed /\ body.from = "buffer"
      <4>1. Holding /\ Release(found, held)
        BY <3>2 DEF ClientWriteFailed, CloseBody, Holding, LInv, KInv, PlanOK, NoBody
      <4>2. found = at /\ at \in DOMAIN entries /\ entries[at] = held /\ held \in 1 .. Len(heap)
            /\ at \in Positions
        BY <4>1, HeldIsAt, FoundIsAt DEF LInv, Holding, Calling
      <4> QED
        BY <4>1, <4>2, ReleaseTakes DEF LInv, KInv
    <3>3. CASE ClientWriteFailed /\ body.from # "buffer"
      BY <3>3 DEF ClientWriteFailed, CloseBody, prefetchVars
    <3> QED
      BY <3>1, <3>2, <3>3
  <2>3. OnceEach'
    BY <2>2 DEF LInv, OnceEach
  <2> QED
    BY <2>1, <2>3 DEF LInv
<1>2. CASE pc' # "failed"
  <2>1. /\ pc \in {"live", "copy"} /\ IsGap /\ pc' = "file"
        /\ UNCHANGED <<window, next, at, entries, heap>>
    BY <1>2 DEF WaitCancelled, LiveFailed, LiveCancelled, ClientWriteFailed, AfterFailedRead,
                envVars, locateVars, prefetchVars
  <2>2. next \in Nat /\ at \in Nat
    BY ConfigAssumption DEF LInv, KInv, IInv, TypeOK
  <2>3. Started' /\ OnceEach' /\ NoLeak'
    BY <2>1, <2>2, SettledKeeps
  <2>4. LiveWhole'
    BY <2>1 DEF LiveWhole
  <2> QED
    BY <2>3, <2>4 DEF LInv
<1> QED
  BY <1>1, <1>2

\* What the prefetches and the client do moves nothing the writer goes by.
LEMMA RestOnce ==
    ASSUME LInv, KInv',
           \/ ClientLeaves \/ HandlerReturns \/ UNCHANGED vars
           \/ \E h \in 1 .. Len(heap) : Run(h)
    PROVE  LInv'
<1>1. /\ UNCHANGED <<window, at, next, entries, call, pc, body>>
      /\ Len(heap') = Len(heap)
      /\ \A h \in 1 .. Len(heap) : heap'[h].pos = heap[h].pos /\ (heap[h].err => heap'[h].err)
  <2>1. CASE ClientLeaves \/ HandlerReturns \/ UNCHANGED vars
    BY <2>1 DEF ClientLeaves, HandlerReturns, vars, envVars, locateVars, prefetchVars, fetchVars
  <2>2. CASE \E h \in 1 .. Len(heap) : Run(h)
    <3>1. PICK g \in 1 .. Len(heap) : Run(g)
      BY <2>2
    <3>2. /\ UNCHANGED <<window, at, next, entries, call, pc, body>>
          /\ Len(heap') = Len(heap)
          /\ \A h \in 1 .. Len(heap) : h # g => heap'[h] = heap[h]
          /\ heap'[g].pos = heap[g].pos /\ (heap[g].err => heap'[g].err)
      BY <3>1, RunFills DEF LInv
    <3> QED
      BY <3>2
  <2> QED
    BY <2>1, <2>2
<1>2. IsGap' = IsGap
  BY <1>1 DEF IsGap, Cut
<1>3. Started'
  BY <1>1, <1>2 DEF LInv, Started
<1>4. OnceEach' /\ NoLeak' /\ LiveWhole'
  BY <1>1 DEF LInv, OnceEach, NoLeak, LiveWhole, Cut
<1> QED
  BY <1>3, <1>4 DEF LInv

LEMMA NextLInv == ASSUME DistinctUrls PROVE LInv /\ [Next]_vars => LInv'
<1> SUFFICES ASSUME LInv, [Next]_vars PROVE LInv'
  OBVIOUS
<1>1. KInv'
  BY NextKInv DEF LInv
<1>2. CASE SkipFile \/ FetchGap \/ FetchContent \/ Finish
  BY <1>1, <1>2, PassKeeps
<1>3. CASE StartAhead
  BY <1>1, <1>3, AheadOnce
<1>4. CASE Lookup \/ WaitBuffered \/ LiveAnswered
  BY <1>1, <1>4, CallOnce
<1>5. CASE WaitFailed
  BY <1>1, <1>5, GivenUp
<1>6. CASE CopyDone
  BY <1>1, <1>6, CopiedOnce
<1>7. CASE WaitCancelled \/ LiveFailed \/ LiveCancelled \/ ClientWriteFailed
  BY <1>1, <1>7, EndOnce
<1>8. CASE \/ ClientLeaves \/ HandlerReturns \/ UNCHANGED vars
           \/ \E h \in 1 .. Len(heap) : Run(h)
  BY <1>1, <1>8, RestOnce
<1> QED
  BY <1>2, <1>3, <1>4, <1>5, <1>6, <1>7, <1>8 DEF Next, Writer, Terminated

LEMMA InitLInv == Init => LInv
<1> SUFFICES ASSUME Init PROVE LInv
  OBVIOUS
<1>1. KInv
  BY InitKInv
<1>2. Started /\ OnceEach /\ LiveWhole /\ NoLeak
  BY DEF Init, Started, OnceEach, LiveWhole, NoLeak
<1> QED
  BY <1>1, <1>2 DEF LInv

\* prefetch.go:20-24: a prefetched file is never requested from upstream again, unless
\* its prefetch has failed.
THEOREM FetchedOnce == ASSUME DistinctUrls PROVE Spec => []NeverFetchedTwice
<1>1. ASSUME LInv PROVE NeverFetchedTwice
  <2>1. OnceEach
    BY <1>1 DEF LInv
  <2>2. ASSUME pc = "live", Whole(call.begin, call.end, Size[at]),
               NEW h \in 1 .. Len(heap), heap[h].pos = at
        PROVE  heap[h].err
    <3>1. at \in Positions /\ Positions \subseteq Nat
      BY <1>1, <2>2, FoundIsAt DEF LInv, Calling
    <3>2. at \notin DOMAIN entries
      BY <1>1, <2>2 DEF LInv, LiveWhole, KInv, PlanOK, NoBody
    <3> QED
      BY <1>1, <2>2, <3>1, <3>2 DEF LInv, Started
  <2> QED
    BY <2>1, <2>2 DEF OnceEach, NeverFetchedTwice
<1> QED
  BY <1>1, InitLInv, NextLInv, PTL DEF Spec

\* prefetch.go:196-224: the budget of every file the writer has passed whole is given
\* back, and nothing is started beyond the window of Depth files.
THEOREM LeavesNothing == ASSUME DistinctUrls PROVE Spec => []NoLeak
<1>1. LInv => NoLeak
  BY DEF LInv
<1> QED
  BY <1>1, InitLInv, NextLInv, PTL DEF Spec
-----------------------------------------------------------------------------
(* The read-ahead is bounded: what it has under way or in memory belongs   *)
(* to the file of the last fetch and the Depth files behind it.            *)

InMap(h) == heap[h].pos \in DOMAIN entries /\ entries[heap[h].pos] = h

\* NoLeak says nothing of an archive that failed, and lets a cut file stay behind
\* forever; in fact no file is left there when the next is fetched, for a file that the
\* window cuts on the left is never read ahead, and behind a right cut nothing is fetched.
Near == \A j \in DOMAIN entries : next <= j /\ j <= next + Depth /\ window.b < Start[j]

\* A record leaves the map when its goroutine is through and its body was of use, or
\* there is none.
Settled(h) == heap[h].pc = "done" /\ (heap[h].err \/ h \in served)

InHand ==
    /\ \A h \in 1 .. Len(heap) : InMap(h) \/ Settled(h)
    /\ pc = "copy" /\ body.from = "buffer" => heap[held].pc = "done"

FInv == LInv /\ Near /\ InHand

\* Where the window leaves something of two files, it does not cut the first one on the
\* right; and where it leaves something of a file, the next begins inside or behind it.
LEMMA InsideInOrder ==
    ASSUME TypeOK, NEW i \in Positions, NEW j \in Positions, i < j
    PROVE  /\ ~Cut(j).skip /\ window.b < Start[i] => ~Cut(i).partial
           /\ ~Cut(i).skip => window.b < Start[j]
<1> DEFINE x == Start[i]
           y == Start[j]
           l == Size[i]
           k == Size[j]
<1>1. /\ x \in Nat /\ y \in Nat /\ l \in Nat /\ k \in Nat /\ x + l <= y
      /\ window.b \in Nat /\ window.e \in Nat
  BY PlanAssumption DEF TypeOK
<1>2. Cut(i) = Clip(x, window.b, window.e, l) /\ Cut(j) = Clip(y, window.b, window.e, k)
  BY DEF Cut
<1> HIDE DEF x, y, l, k
<1>3. ~Cut(i).skip => x + l > window.b
  BY <1>1, <1>2 DEF Clip, Outside
<1>4. ~Cut(j).skip => y <= window.e
  BY <1>1, <1>2 DEF Clip, Outside, Unbounded
<1>5. window.b < x /\ y <= window.e => ~Outside(x, window.b, window.e, l)
                                       /\ ~CutsLeft(x, window.b, l) /\ ~CutsRight(x, window.e, l)
  BY <1>1 DEF Outside, CutsLeft, CutsRight
<1>6. window.b < x /\ y <= window.e => ~Cut(i).partial
  <2>1. ~Outside(x, window.b, window.e, l) =>
           Cut(i).partial = (CutsLeft(x, window.b, l) \/ CutsRight(x, window.e, l))
    BY <1>2 DEF Clip
  <2> QED
    BY <1>5, <2>1
<1> QED
  BY <1>1, <1>3, <1>4, <1>6 DEF x, y

\* Nothing that Near and InHand speak of has changed.
LEMMA HandKeeps ==
    ASSUME FInv, LInv', UNCHANGED <<window, next, entries, heap, served>>,
           pc' = "copy" /\ body'.from = "buffer" => heap[held'].pc = "done"
    PROVE  FInv'
BY DEF FInv, Near, InHand, InMap, Settled

\* The writer fetches the next file: the map holds none in front of it.
LEMMA FetchNear ==
    ASSUME DistinctUrls, FInv, LInv', FetchGap \/ FetchContent
    PROVE  FInv'
<1>1. /\ pc = "file" /\ UNCHANGED <<window, at, entries, heap, served, body>>
      /\ ~Cut(at).skip /\ body = NoBody /\ at \in Positions
  BY ConfigAssumption DEF FetchGap, FetchContent, envVars, prefetchVars, FInv, LInv, KInv,
                          IInv, TypeOK, PlanOK, Positions
<1>2. TypeOK /\ next \in Nat /\ at \in Nat /\ DOMAIN entries \subseteq Positions
      /\ Positions \subseteq Nat /\ Depth \in Nat /\ next <= at
  BY Numbers DEF FInv, LInv, KInv, IInv, TypeOK, PlanOK
<1>3. next' = at
  <2>1. PICK c : EnterFetch(c) /\ c.url = Url[at]
    <3>1. CASE FetchGap
      BY <3>1 DEF FetchGap
    <3>2. CASE FetchContent
      BY <3>2 DEF FetchContent, ContentCall
    <3> QED
      BY <3>1, <3>2
  <2>2. found' \in Positions /\ next' = found' /\ Url[found'] = Url[at]
    BY <1>1, <2>1, LocateFinds DEF EnterFetch, FInv, LInv
  <2> QED
    BY <1>1, <2>2 DEF DistinctUrls
<1>4. Near'
  <2> SUFFICES ASSUME NEW j \in DOMAIN entries
               PROVE  at <= j /\ j <= at + Depth /\ window.b < Start[j]
    BY <1>1, <1>3 DEF Near
  <2>1. j <= next + Depth /\ (j >= at \/ Cut(j).partial) /\ window.b < Start[j]
    BY <1>1 DEF FInv, LInv, NoLeak, Near
  <2>2. j \in Positions /\ j \in Nat
    BY <1>2
  <2>3. ASSUME j < at PROVE ~Cut(j).partial
    BY <1>1, <1>2, <2>1, <2>2, <2>3, InsideInOrder
  <2>4. at <= j
    BY <1>2, <2>1, <2>2, <2>3
  <2>5. j <= at + Depth
    BY <1>2, <2>1, <2>2
  <2> QED
    BY <2>1, <2>4, <2>5
<1>5. InHand'
  BY <1>1 DEF FInv, InHand, InMap, Settled, NoBody
<1> QED
  BY <1>4, <1>5 DEF FInv

\* A file is started behind the one that is fetched.
LEMMA StartNear ==
    ASSUME DistinctUrls, FInv, LInv', StartAhead
    PROVE  FInv'
<1>1. /\ pc = "ahead" /\ pc' = "ahead" /\ UNCHANGED <<window, next, at, served>>
      /\ ahead <= found + Depth /\ ahead <= NFiles
  BY DEF StartAhead, envVars, locateVars
<1>2. /\ found = at /\ next = at /\ at \in Positions /\ Positions \subseteq Nat
      /\ TypeOK /\ ~Cut(at).skip
  BY <1>1, FoundIsAt DEF FInv, LInv, Calling, Asked
<1>3. ahead > at /\ ahead \in Positions /\ Depth \in Nat
  BY <1>1, <1>2, ConfigAssumption DEF FInv, LInv, KInv, PlanOK, TypeOK, Positions
<1>4. CASE Qualifies(ahead)
  <2>1. /\ heap' = Append(heap, NewEntry(ahead)) /\ heap \in Seq(Entry)
        /\ entries' = [j \in DOMAIN entries \cup {ahead} |->
                          IF j = ahead THEN Len(heap) + 1 ELSE entries[j]]
        /\ ahead \notin DOMAIN entries
    BY <1>2, <1>4 DEF StartAhead, Qualifies, TypeOK
  <2>2. /\ Len(heap) \in Nat /\ Len(heap') = Len(heap) + 1
        /\ heap'[Len(heap) + 1].pos = ahead
        /\ \A h \in 1 .. Len(heap) : heap'[h] = heap[h]
    <3>1. NewEntry(ahead).pos = ahead
      BY DEF NewEntry
    <3> QED
      BY <2>1, <3>1
  <2>3. /\ DOMAIN entries' = DOMAIN entries \cup {ahead}
        /\ entries'[ahead] = Len(heap) + 1
        /\ \A j \in DOMAIN entries : entries'[j] = entries[j]
    BY <2>1
  <2>4. Near'
    <3> SUFFICES ASSUME NEW j \in DOMAIN entries'
                 PROVE  next <= j /\ j <= next + Depth /\ window.b < Start[j]
      BY <1>1 DEF Near
    <3>1. CASE j = ahead
      BY <1>1, <1>2, <1>3, <3>1, InsideInOrder
    <3>2. CASE j \in DOMAIN entries
      BY <3>2 DEF FInv, Near
    <3> QED
      BY <2>3, <3>1, <3>2
  <2>5. InHand'
    <3> SUFFICES ASSUME NEW h \in 1 .. Len(heap') PROVE InMap(h)' \/ Settled(h)'
      BY <1>1 DEF InHand
    <3>1. CASE h = Len(heap) + 1
      BY <2>2, <2>3, <3>1 DEF InMap
    <3>2. CASE h \in 1 .. Len(heap)
      <4>1. InMap(h) \/ Settled(h)
        BY <3>2 DEF FInv, InHand
      <4> QED
        BY <1>1, <2>2, <2>3, <3>2, <4>1 DEF InMap, Settled
    <3> QED
      BY <2>2, <3>1, <3>2
  <2> QED
    BY <2>4, <2>5 DEF FInv
<1>5. CASE ~Qualifies(ahead)
  <2>1. UNCHANGED <<entries, heap>>
    BY <1>5 DEF StartAhead, prefetchVars
  <2> QED
    BY <1>1, <2>1, HandKeeps
<1> QED
  BY <1>4, <1>5

\* What a release takes out of the map was through, and failed or has been served.
LEMMA GoneNear ==
    ASSUME DistinctUrls, FInv, LInv', UNCHANGED <<window, next>>, Holding,
           Release(found, held), heap[held].pc = "done", served \subseteq served',
           heap[held].err \/ held \in served', pc' # "copy"
    PROVE  FInv'
<1>1. /\ found = at /\ at \in DOMAIN entries /\ entries[at] = held /\ at \in Positions
      /\ held \in 1 .. Len(heap) /\ heap \in Seq(Entry) /\ IInv
  BY HeldIsAt, FoundIsAt DEF FInv, LInv, KInv, IInv, TypeOK, Holding, Calling
<1>2. /\ DOMAIN entries' = DOMAIN entries \ {at}
      /\ \A j \in DOMAIN entries' : entries'[j] = entries[j]
      /\ Len(heap') = Len(heap)
      /\ \A h \in 1 .. Len(heap) : heap'[h].pos = heap[h].pos /\ heap'[h].err = heap[h].err
  BY <1>1, ReleaseTakes
<1>3. \A h \in 1 .. Len(heap) : heap'[h].pc = heap[h].pc
  <2>1. heap' = [heap EXCEPT ![held] = Freed(heap[held])] /\ heap[held] \in Entry
    BY <1>1 DEF Release
  <2>2. Freed(heap[held]).pc = heap[held].pc
    BY <2>1 DEF Freed, Entry
  <2> QED
    BY <1>1, <2>1, <2>2
<1>4. Near'
  BY <1>2 DEF FInv, Near
<1>5. InHand'
  <2> SUFFICES ASSUME NEW h \in 1 .. Len(heap) PROVE InMap(h)' \/ Settled(h)'
    BY <1>2 DEF InHand
  <2>1. InMap(h) \/ Settled(h)
    BY DEF FInv, InHand
  <2>2. CASE h = held
    BY <1>2, <1>3, <2>2 DEF Settled
  <2>3. CASE h # held
    BY <1>1, <1>2, <1>3, <2>1, <2>3 DEF InMap, Settled
  <2> QED
    BY <2>2, <2>3
<1> QED
  BY <1>4, <1>5 DEF FInv

LEMMA BodyNear ==
    ASSUME DistinctUrls, FInv, LInv', WaitFailed \/ CopyDone \/ ClientWriteFailed
    PROVE  FInv'
<1>1. UNCHANGED <<window, next>> /\ pc' # "copy"
  BY DEF WaitFailed, CopyDone, ClientWriteFailed, envVars, locateVars, NextFile
<1>2. CASE WaitFailed
  <2>1. pc = "wait" /\ heap[held].pc = "done" /\ heap[held].err /\ Release(found, held)
        /\ served' = served
    BY <1>2 DEF WaitFailed
  <2> QED
    BY <1>1, <2>1, GoneNear DEF Holding
<1>3. CASE (CopyDone \/ ClientWriteFailed) /\ body.from = "buffer"
  <2>1. pc = "copy" /\ CloseBody
    BY <1>3 DEF CopyDone, ClientWriteFailed, FInv, LInv, KInv, PlanOK, NoBody
  <2>2. Release(found, held) /\ served' = served \cup {held} /\ heap[held].pc = "done"
    BY <1>3, <2>1 DEF CloseBody, FInv, InHand
  <2> QED
    BY <1>1, <1>3, <2>1, <2>2, GoneNear DEF Holding
<1>4. CASE (CopyDone \/ ClientWriteFailed) /\ body.from # "buffer"
  <2>1. UNCHANGED <<entries, heap, served>>
    BY <1>4 DEF CopyDone, ClientWriteFailed, CloseBody, prefetchVars
  <2> QED
    BY <1>1, <2>1, HandKeeps
<1> QED
  BY <1>2, <1>3, <1>4

\* Everything else leaves the map and the cursor alone; a prefetch that has ended does
\* not start again.
LEMMA RestNear ==
    ASSUME FInv, LInv',
           \/ SkipFile \/ Finish \/ Lookup \/ WaitBuffered \/ WaitCancelled
           \/ LiveAnswered \/ LiveFailed \/ LiveCancelled
           \/ ClientLeaves \/ HandlerReturns \/ UNCHANGED vars
           \/ \E h \in 1 .. Len(heap) : Run(h)
    PROVE  FInv'
<1>1. CASE WaitBuffered
  BY <1>1, HandKeeps DEF WaitBuffered, envVars, locateVars, prefetchVars, fetchVars
<1>2. CASE LiveAnswered
  BY <1>2, HandKeeps DEF LiveAnswered, envVars, locateVars, prefetchVars
<1>3. CASE SkipFile \/ Finish \/ Lookup \/ WaitCancelled \/ LiveFailed \/ LiveCancelled
  <2>1. UNCHANGED <<window, next, entries, heap, served>> /\ pc' # "copy"
    BY <1>3 DEF SkipFile, Finish, Lookup, WaitCancelled, LiveFailed, LiveCancelled,
                AfterFailedRead, envVars, locateVars, prefetchVars
  <2> QED
    BY <2>1, HandKeeps
<1>4. CASE ClientLeaves \/ HandlerReturns \/ UNCHANGED vars
  <2>1. UNCHANGED <<window, next, entries, heap, served, pc, body, held>>
    BY <1>4 DEF ClientLeaves, HandlerReturns, vars, envVars, locateVars, prefetchVars,
                fetchVars
  <2> QED
    BY <2>1, HandKeeps DEF FInv, InHand
<1>5. ASSUME NEW g \in 1 .. Len(heap), Run(g) PROVE FInv'
  <2>1. /\ UNCHANGED <<window, next, entries, served, pc, body, held>>
        /\ Len(heap') = Len(heap)
        /\ \A h \in 1 .. Len(heap) : h # g => heap'[h] = heap[h]
        /\ heap'[g].pos = heap[g].pos
    BY <1>5, RunFills DEF FInv, LInv
  <2>2. heap[g].pc # "done"
    BY <1>5 DEF Run, RunAnswered, RunFailed, RunCancelled, RunRead
  <2>3. InHand'
    <3>1. pc = "copy" /\ body.from = "buffer" =>
             held # g /\ held \in 1 .. Len(heap) /\ heap[held].pc = "done"
      BY <2>2 DEF FInv, InHand, LInv, KInv, IInv, ControlOK
    <3>2. \A h \in 1 .. Len(heap) : InMap(h)' \/ Settled(h)'
      BY <2>1, <2>2 DEF FInv, InHand, InMap, Settled
    <3> QED
      BY <2>1, <3>1, <3>2 DEF InHand
  <2>4. Near'
    BY <2>1 DEF FInv, Near
  <2> QED
    BY <2>3, <2>4 DEF FInv
<1> QED
  BY <1>1, <1>2, <1>3, <1>4, <1>5

LEMMA NextFInv == ASSUME DistinctUrls PROVE FInv /\ [Next]_vars => FInv'
<1> SUFFICES ASSUME FInv, [Next]_vars PROVE FInv'
  OBVIOUS
<1>1. LInv'
  BY NextLInv DEF FInv
<1>2. CASE FetchGap \/ FetchContent
  BY <1>1, <1>2, FetchNear
<1>3. CASE StartAhead
  BY <1>1, <1>3, StartNear
<1>4. CASE WaitFailed \/ CopyDone \/ ClientWriteFailed
  BY <1>1, <1>4, BodyNear
<1>5. CASE \/ SkipFile \/ Finish \/ Lookup \/ WaitBuffered \/ WaitCancelled
           \/ LiveAnswered \/ LiveFailed \/ LiveCancelled
           \/ ClientLeaves \/ HandlerReturns \/ UNCHANGED vars
           \/ \E h \in 1 .. Len(heap) : Run(h)
  BY <1>1, <1>5, RestNear
<1> QED
  BY <1>2, <1>3, <1>4, <1>5 DEF Next, Writer, Terminated

\* Records of different files, all of them near the last fetched one, are few.
LEMMA FewNear ==
    ASSUME FInv, NEW lo \in {next, next + 1},
           NEW S \in SUBSET (1 .. Len(heap)), \A h \in S : InMap(h) /\ heap[h].pos >= lo
    PROVE  Cardinality(S) <= next + Depth + 1 - lo
<1>1. next \in Nat /\ Depth \in Nat /\ TypeOK
  BY Numbers DEF FInv, LInv, KInv, IInv
<1> DEFINE T == lo .. next + Depth
           f == [h \in S |-> heap[h].pos]
<1>2. \A h \in S : heap[h].pos \in T
  <2> SUFFICES ASSUME NEW h \in S PROVE heap[h].pos \in T
    OBVIOUS
  <2>1. heap[h].pos \in DOMAIN entries /\ heap[h].pos \in Nat
    BY <1>1, Numbers DEF InMap
  <2>2. lo <= heap[h].pos /\ heap[h].pos <= next + Depth
    BY <2>1 DEF FInv, Near
  <2> QED
    BY <1>1, <2>1, <2>2
<1>3. \A g, h \in S : heap[g].pos = heap[h].pos => g = h
  BY DEF InMap
<1>4. f \in Injection(S, T)
  BY <1>2, <1>3 DEF Injection, IsInjective
<1>5. IsFiniteSet(T) /\ Cardinality(T) = next + Depth + 1 - lo
  <2>1. lo \in Int /\ next + Depth \in Int
    BY <1>1
  <2>2. /\ IsFiniteSet(T)
        /\ Cardinality(T) = IF lo > next + Depth THEN 0 ELSE (next + Depth) - lo + 1
    BY <2>1, FS_Interval
  <2> QED
    BY <1>1, <2>2
<1> HIDE DEF f, T
<1>6. Cardinality(S) <= Cardinality(T)
  BY <1>4, <1>5, FS_Injection
<1> QED
  BY <1>5, <1>6

\* An archive is finished behind its last file.
Through == pc = "finished" => at > NFiles

LEMMA AllThrough == Spec => []Through
<1>1. Init => Through
  BY DEF Init, Through
<1>2. ASSUME Through, [Next]_vars PROVE Through'
  <2>1. CASE Writer
    <3>1. pc # "finished"
      BY <2>1 DEF Writer, SkipFile, FetchGap, FetchContent, Finish, StartAhead, Lookup,
         WaitFailed, WaitBuffered, WaitCancelled, LiveAnswered, LiveFailed, LiveCancelled,
         CopyDone, ClientWriteFailed
    <3>2. pc' = "finished" => Finish \/ pc' = pc
      BY <2>1 DEF Writer, SkipFile, FetchGap, FetchContent, EnterFetch, StartAhead, Lookup,
         WaitFailed, WaitBuffered, WaitCancelled, LiveAnswered, LiveFailed, LiveCancelled,
         AfterFailedRead, CopyDone, NextFile, ClientWriteFailed
    <3> QED BY <3>1, <3>2 DEF Finish, Through
  <2>2. CASE ~Writer
    <3>1. UNCHANGED <<pc, at>>
      BY <1>2, <2>2 DEF Next, Run, RunAnswered, RunFailed, RunCancelled, RunRead, RunEnds,
         ClientLeaves, HandlerReturns, Terminated, vars
    <3> QED BY <1>2, <3>1 DEF Through
  <2> QED BY <2>1, <2>2
<1> QED BY <1>1, <1>2, PTL DEF Spec

\* prefetch.go:32-34: the read-ahead has at most Depth+1 requests under way, also while
\* the archive fails, and behind the last file fetched it wastes at most Depth bodies,
\* whatever the client asks for and however upstream answers; one more it may waste of
\* that file, if the window cuts it.
THEOREM AheadBounded == ASSUME DistinctUrls PROVE Spec => []BoundedAhead
<1>1. Init => FInv
  BY InitLInv DEF FInv, Init, Near, InHand, NoBody
<1>2. ASSUME FInv, Through PROVE BoundedAhead
  <2>0. /\ next \in Nat /\ Depth \in Nat /\ at \in Nat /\ NFiles \in Nat
        /\ \A h \in 1 .. Len(heap) : InMap(h) => /\ heap[h].pos \in Positions
                                                /\ heap[h].pos \in Nat
                                                /\ heap[h].pos >= next
    <3>1. TypeOK
      BY <1>2 DEF FInv, LInv, KInv, IInv
    <3>2. Depth \in Nat /\ NFiles \in Nat /\ next \in Nat /\ at \in Nat
      BY <3>1, Numbers, ConfigAssumption
    <3>3. ASSUME NEW h \in 1 .. Len(heap), InMap(h)
          PROVE  heap[h].pos \in Positions /\ heap[h].pos \in Nat /\ heap[h].pos >= next
      <4>1. heap[h].pos \in DOMAIN entries
        BY <3>3 DEF InMap
      <4>2. heap[h].pos \in Positions /\ heap[h].pos >= next
        BY <1>2, <3>1, <4>1 DEF FInv, Near, TypeOK
      <4> QED BY <3>2, <4>2 DEF Positions
    <3> QED BY <3>2, <3>3
  <2>1. ASSUME NEW S \in SUBSET (1 .. Len(heap)), \A h \in S : ~Settled(h)
        PROVE  Cardinality(S) <= Depth + 1
    <3>1. \A h \in S : InMap(h) /\ heap[h].pos >= next
      BY <1>2, <2>0, <2>1 DEF FInv, InHand
    <3>2. Cardinality(S) <= next + Depth + 1 - next
      BY <1>2, <3>1, FewNear
    <3>3. next + Depth + 1 - next = Depth + 1
      BY <2>0
    <3> QED BY <3>2, <3>3
  <2>2. Cardinality({h \in 1 .. Len(heap) : heap[h].pc # "done"}) <= Depth + 1
    BY <2>1 DEF Settled
  <2>3. Cardinality(Wasted) <= Depth + 1
    BY <2>1 DEF Settled, Wasted
  <2> DEFINE behind == {h \in Wasted : heap[h].pos # next}
  <2>4. \A h \in Wasted : h \in 1 .. Len(heap) /\ InMap(h)
    BY <1>2 DEF Wasted, FInv, InHand, Settled
  <2>5. Cardinality(behind) <= Depth
    <3>1. \A h \in behind : InMap(h) /\ heap[h].pos >= next + 1
      BY <2>0, <2>4
    <3>2. behind \in SUBSET (1 .. Len(heap))
      BY <2>4
    <3> HIDE DEF behind
    <3>3. Cardinality(behind) <= next + Depth + 1 - (next + 1)
      BY <1>2, <3>1, <3>2, FewNear
    <3>4. next + Depth + 1 - (next + 1) = Depth
      BY <2>0
    <3> QED BY <3>3, <3>4
  <2>6. pc = "finished" /\ LastWasted => Cut(next).partial
    <3> SUFFICES ASSUME pc = "finished", NEW h \in Wasted, heap[h].pos = next
                 PROVE  Cut(next).partial
      BY DEF LastWasted
    <3>1. next \in DOMAIN entries /\ next \in 1 .. NFiles
      BY <2>0, <2>4 DEF InMap, Positions
    <3>2. next >= at \/ Cut(next).partial
      BY <1>2, <3>1 DEF FInv, LInv, NoLeak
    <3>3. at > NFiles
      BY <1>2 DEF Through
    <3> QED BY <2>0, <3>1, <3>2, <3>3
  <2> HIDE DEF behind
  <2> QED
    BY <2>2, <2>3, <2>5, <2>6 DEF BoundedAhead, behind
<1> QED
  BY <1>1, <1>2, NextFInv, AllThrough, PTL DEF Spec
=============================================================================
