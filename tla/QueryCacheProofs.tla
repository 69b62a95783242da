-------------------------- MODULE QueryCacheProofs --------------------------
(***************************************************************************)
(* What holds of the query cache for any number of writes, faults and lost *)
(* connections, and any set of hooks that settle what they show            *)
(* (HooksSettle) and let the clients hear of what they write (HooksHeard): *)
(*                                                                         *)
(* - PhantomsGo: what a refused call showed is not left unmarked.          *)
(*   NoPhantom alone is not inductive: while calls are out the entry may   *)
(*   show anything, and a rollback or a cancelled request may bring back   *)
(*   what an earlier call showed.  PhantomInv says that then something is  *)
(*   still to come that marks or replaces the entry, a request or a call   *)
(*   whose onSettled invalidates it, and that a cancelled request puts back*)
(*   nothing unmarked.                                                     *)
(* - CacheTyped: TypeOK.                                                   *)
(* - FreshAtRest: at rest an unmarked entry shows what the server holds.   *)
(*   That says nothing while anything is under way, so it is not inductive *)
(*   either.  HeardInv says of each committed write that the client has    *)
(*   heard of it or is still to: its event is to be published or handled,  *)
(*   a timer is armed for it, or its own call is out.  With it, ShownInv   *)
(*   says that the write is shown, or pending, or that a mark or a request *)
(*   covers it: an answer that has all the client has heard of lacks only  *)
(*   what is pending, and so does an older row that comes after a newer    *)
(*   one.                                                                  *)
(* - NoViewWaits: a mounted view never waits for a fetch that nothing is   *)
(*   going to start or bring.                                              *)
(***************************************************************************)
EXTENDS QueryCache, TLAPS

Adding == {"patch", "row", "both"} \* effects that add the write to the data
Effects == Adding \cup {"invalidate", "remove", "debounce", "none"}
Data == (SUBSET W) \cup {Absent}
Entries == [data : Data, invalid : BOOLEAN]
Requests == [at : {"none", "asked", "answered", "failed"}, answer : SUBSET W, back : Entries]
Outstanding == [phase : {"idle", "sent", "done"}, snapshot : Data, seed : BOOLEAN,
                start : BOOLEAN, settle : BOOLEAN, lost : BOOLEAN, writes : BOOLEAN,
                effect : Effects]
Events == [effect : Effects \ {"none"}, write : W, shows : SUBSET W]

CacheType ==
    /\ key \in Keys
    /\ entry \in Entries
    /\ fetch \in Requests
    /\ events \in Seq(Events)
    /\ server \subseteq W
    /\ unsent \subseteq Events
    /\ mine \in [W -> Outstanding]
    /\ used \in 0 .. MaxWrites
    /\ timer \subseteq W

\* A call that showed something settles; one that is done is committed.
CallsSettle ==
    \A w \in W :
        /\ mine[w].phase # "idle" => w <= used
        /\ mine[w].snapshot # Absent \/ mine[w].seed \/ mine[w].start => mine[w].settle
        /\ mine[w].seed \/ mine[w].start \/ mine[w].effect \in Adding => mine[w].writes
        /\ mine[w].phase = "done" /\ mine[w].writes => w \in server

\* Events put committed writes in, and a row its own.
True(a) ==
    /\ a.effect \in Adding => a.write \in server
    /\ a.shows \subseteq server
    /\ a.effect = "row" => a.write \in a.shows

EventsTrue == (\A i \in 1 .. Len(events) : True(events[i])) /\ \A a \in unsent : True(a)

Safe(e) == ~Cached(e) \/ e.invalid

\* A request answers with committed writes, and a cancelled one puts back an
\* entry that is marked or absent.
RequestTrue(f) == Busy(f) => f.answer \subseteq server /\ Safe(f.back)

\* Somebody is still to replace or to mark the entry.
Coming == Busy(fetch) \/ \E w \in W : mine[w].phase # "idle" /\ mine[w].settle

Excused == "unmarked" \in gaps \/ "seeded" \in gaps

Shows(e) == Safe(e) \/ Excused \/ e.data \subseteq server

PhantomInv ==
    /\ CacheType
    /\ CallsSettle
    /\ EventsTrue
    /\ RequestTrue(fetch)
    /\ Shows(entry) \/ Coming

LEMMA CallsTyped ==
  ASSUME NEW k \in Keys
  PROVE  /\ \A c \in Calls[k] : /\ c.effect \in Effects
                                /\ c.writes \in BOOLEAN /\ c.seed \in BOOLEAN
                                /\ c.start \in BOOLEAN /\ c.settle \in BOOLEAN
                                /\ c.lost \in BOOLEAN
         /\ \A c \in OthersCalls[k] : c.effect \in Effects /\ c.unheard \in BOOLEAN
  <1>1. \A event : Effect(event, k) \in Effects
    BY DEF Effect, Effects, Adding
  <1>2. \A h : /\ On(h, k).effect \in Effects
               /\ On(h, k).writes \in BOOLEAN /\ On(h, k).seed \in BOOLEAN
               /\ On(h, k).start \in BOOLEAN /\ On(h, k).settle \in BOOLEAN
               /\ On(h, k).lost \in BOOLEAN /\ On(h, k).unheard \in BOOLEAN
    BY <1>1 DEF On, Effects
  <1> QED
    BY <1>2 DEF Calls, OthersCalls

LEMMA InvalidateSafe ==
  ASSUME CacheType, RequestTrue(fetch), server' = server,
         NEW e \in Entries, Invalidate(e, fetch)
  PROVE  /\ entry' \in Entries /\ fetch' \in Requests
         /\ Safe(entry') /\ RequestTrue(fetch)'
  <1>1. Marked(e) \in Entries /\ Safe(Marked(e))
    BY DEF Marked, Entries, Safe, Cached
  <1>2. Asked(Marked(e)) \in Requests /\ RequestTrue(Asked(Marked(e)))
    BY <1>1 DEF Asked, Requests, RequestTrue
  <1> QED
    BY <1>1, <1>2 DEF Invalidate, Refetched, CacheType, RequestTrue

\* The parts of the invariant that only the calls and the events can disturb.
Kept == UNCHANGED <<key, server, unsent, mine, used>>

LEMMA CallsKept ==
  ASSUME CallsSettle, Kept
  PROVE  CallsSettle'
  BY DEF CallsSettle, Kept

LEMMA EventsKept ==
  ASSUME EventsTrue, UNCHANGED <<events, unsent, server>>
  PROVE  EventsTrue'
  BY DEF EventsTrue, True

\* A gap that excuses a phantom stays until an answer is cached.
LEMMA ExcuseKept ==
  ASSUME gaps \subseteq gaps', Excused
  PROVE  Excused'
  BY DEF Excused

-----------------------------------------------------------------------------

LEMMA CacheSteps ==
  ASSUME PhantomInv,
         Mount \/ MountSeeded \/ Unmount \/ Collect \/ Read \/ Deliver \/ FetchFails
  PROVE  PhantomInv'
  <1> USE DEF PhantomInv
  <1>1. Kept /\ UNCHANGED <<events, server, timer>>
    BY DEF Mount, MountSeeded, Unmount, Collect, Read, Deliver, FetchFails, Kept, ours, socket
  <1>2. CallsSettle' /\ EventsTrue'
    BY <1>1, CallsKept, EventsKept DEF Kept
  <1>3. ASSUME entry' \in Entries, fetch' \in Requests, RequestTrue(fetch)', Shows(entry)' \/ Coming'
        PROVE  PhantomInv'
    BY <1>1, <1>2, <1>3 DEF CacheType, Kept
  <1>4. CASE Mount
    <2>1. entry.invalid \/ ~Cached(entry) => Safe(entry)
      BY DEF Safe
    <2>2. Asked(entry) \in Requests /\ Busy(Asked(entry))
      BY DEF Asked, Requests, CacheType, Busy
    <2>3. fetch' = fetch \/ (fetch' = Asked(entry) /\ Safe(entry))
      BY <1>4, <2>1 DEF Mount
    <2>4. entry' = entry /\ UNCHANGED <<gaps, mine, server>>
      BY <1>4 DEF Mount, ours
    <2>5. RequestTrue(Asked(entry)) <=> Safe(entry)
      BY DEF RequestTrue, Asked, Busy
    <2>6. RequestTrue(fetch)'
      BY <2>3, <2>4, <2>5 DEF RequestTrue
    <2> QED
      BY <1>3, <2>2, <2>3, <2>4, <2>6 DEF CacheType, Shows, Excused, Coming
  <1>seed. CASE MountSeeded
    <2>1. PICK d \in SUBSET (1 .. used) :
             /\ entry' = Set(d)
             /\ gaps' = IF told \subseteq d /\ \A v \in d \ server : InMutation(v) /\ mine[v].settle
                        THEN gaps ELSE gaps \cup {"seeded"}
      BY <1>seed DEF MountSeeded
    <2>2. d \subseteq W /\ fetch' = fetch
      BY <1>seed, Bounds DEF MountSeeded, CacheType, W
    <2>3. entry' \in Entries /\ entry'.data = d
      BY <2>1, <2>2 DEF Set, Entries, Data
    <2>4. Shows(entry)' \/ Coming'
      <3>1. CASE d \subseteq server
        BY <3>1, <2>3, <1>1 DEF Shows
      <3>2. CASE "seeded" \in gaps'
        BY <3>2 DEF Shows, Excused
      <3>3. ASSUME NEW v \in d \ server, InMutation(v), mine[v].settle
            PROVE  Coming'
        BY <3>3, <2>2, <1>1 DEF Coming, InMutation, Kept
      <3> QED
        BY <3>1, <3>2, <3>3, <2>1
    <2> QED
      BY <1>1, <1>3, <2>2, <2>3, <2>4 DEF CacheType, RequestTrue
  <1>5. CASE Unmount
    BY <1>3, <1>5 DEF Unmount, ours, CacheType, Shows, Excused, Coming, RequestTrue
  <1>6. CASE Collect
    <2>1. entry' = Nothing /\ fetch' = Idle
      BY <1>6 DEF Collect
    <2>2. Nothing \in Entries /\ Idle \in Requests /\ Safe(Nothing) /\ ~Busy(Idle)
      BY DEF Nothing, Idle, Entries, Data, Requests, Safe, Cached, Busy
    <2> QED
      BY <1>3, <2>1, <2>2 DEF RequestTrue, Shows
  <1>7. CASE Read
    <2>1. fetch' = [fetch EXCEPT !.at = "answered", !.answer = server] /\ fetch.at = "asked"
      BY <1>7 DEF Read
    <2>2. fetch' \in Requests /\ fetch'.back = fetch.back /\ fetch'.answer = server /\ fetch'.at = "answered"
      BY <2>1 DEF CacheType, Requests
    <2>3. Busy(fetch) /\ Busy(fetch')
      BY <2>1, <2>2 DEF Busy
    <2>4. RequestTrue(fetch)' /\ Coming'
      BY <1>1, <2>2, <2>3 DEF RequestTrue, Coming
    <2>5. entry' = entry
      BY <1>7 DEF Read
    <2> QED
      BY <1>3, <2>2, <2>4, <2>5 DEF CacheType
  <1>8. CASE Deliver
    <2>1. entry' = [data |-> fetch.answer, invalid |-> FALSE] /\ fetch' = Idle /\ Busy(fetch)
      BY <1>8 DEF Deliver, Set, Busy
    <2>2. entry' \in Entries /\ entry'.data \subseteq server
      BY <2>1 DEF CacheType, Requests, Entries, Data, RequestTrue
    <2>3. Nothing \in Entries /\ Idle \in Requests /\ ~Busy(Idle)
      BY DEF Nothing, Idle, Entries, Data, Requests, Busy
    <2> QED
      BY <1>1, <1>3, <2>1, <2>2, <2>3 DEF RequestTrue, Shows
  <1>9. CASE FetchFails
    <2>1. entry' = Marked(entry) /\ fetch' = [Idle EXCEPT !.at = "failed"]
      BY <1>9 DEF FetchFails
    <2>2. Marked(entry) \in Entries /\ Safe(Marked(entry))
      BY DEF Marked, Entries, Safe, Cached, CacheType
    <2>3. fetch' \in Requests /\ ~Busy(fetch')
      BY <2>1 DEF Nothing, Idle, Entries, Data, Requests, Busy
    <2> QED
      BY <1>3, <2>1, <2>2, <2>3 DEF RequestTrue, Shows
  <1> QED
    BY <1>4, <1>seed, <1>5, <1>6, <1>7, <1>8, <1>9

-----------------------------------------------------------------------------
(* Writes *)

\* The event of a committed write tells the truth.
LEMMA CommittedTrue ==
  ASSUME CacheType, EventsTrue, UNCHANGED events,
         NEW effect \in Effects, NEW unheard, NEW w \in W, Committed(effect, unheard, w),
         server \subseteq server', server' \subseteq W, effect \in Adding => w \in server'
  PROVE  unsent' \subseteq Events /\ EventsTrue' /\ gaps \subseteq gaps'
  <1> DEFINE new == EventOf(effect, w)
  <1>1. unsent' = unsent \/ (unsent' = unsent \cup {new} /\ effect # "none")
    BY DEF Committed
  <1>2. /\ new.effect = effect /\ new.write = w
        /\ effect = "row" => w \in new.shows
        /\ new.shows \subseteq server'
        /\ effect # "none" => new \in Events
    <2>1. effect = "row" => w \in server'
      BY DEF Adding
    <2>2. EventOf(effect, w).shows =
            IF effect = "row" THEN {w} \cup ((RowOf(w, row') \cap server') \ bare') ELSE {}
      BY DEF EventOf
    <2>3. new.shows \subseteq server' /\ (effect = "row" => w \in new.shows)
      BY <2>1, <2>2
    <2> QED
      BY <2>3 DEF EventOf, Events
  <1> HIDE DEF new
  <1>3. unsent' \subseteq Events
    BY <1>1, <1>2 DEF CacheType
  <1>4. EventsTrue'
    BY <1>1, <1>2 DEF EventsTrue, True
  <1>5. gaps \subseteq gaps'
    BY DEF Committed
  <1> QED
    BY <1>3, <1>4, <1>5

LEMMA OthersWriteStep ==
  ASSUME PhantomInv, NEW c \in OthersCalls[key], OthersWrite(c)
  PROVE  PhantomInv'
  <1> USE DEF PhantomInv
  <1>1. key \in Keys /\ c.effect \in Effects
    BY CallsTyped DEF CacheType
  <1>2. NextWrite \in W /\ used' = NextWrite /\ server' = server \cup {NextWrite}
    BY Bounds DEF OthersWrite, BeginWrite, NextWrite, W, CacheType
  <1>3. UNCHANGED <<key, entry, fetch, events, timer, mine>>
    BY DEF OthersWrite, socket
  <1>4. PICK w \in W : w = NextWrite
    BY <1>2
  <1>5. Committed(c.effect, c.unheard, w) /\ server \subseteq server' /\ server' \subseteq W /\ w \in server'
    BY <1>2, <1>4 DEF OthersWrite, CacheType
  <1>6. unsent' \subseteq Events /\ EventsTrue' /\ gaps \subseteq gaps'
    BY <1>1, <1>3, <1>5, CommittedTrue
  <1>7. used' \in 0 .. MaxWrites
    BY <1>2, Bounds DEF W
  <1>8. CacheType'
    BY <1>3, <1>5, <1>6, <1>7 DEF CacheType
  <1>9. CallsSettle'
    BY <1>2, <1>3 DEF CallsSettle, CacheType, NextWrite, W
  <1>10. RequestTrue(fetch)' /\ (Shows(entry) \/ Coming)'
    BY <1>2, <1>3, <1>6, ExcuseKept DEF RequestTrue, Shows, Coming
  <1> QED
    BY <1>6, <1>8, <1>9, <1>10

LEMMA MutateStep ==
  ASSUME PhantomInv, NEW c \in Calls[key], Mutate(c)
  PROVE  PhantomInv'
  <1> USE DEF PhantomInv
  <1> DEFINE e == IF c.cancel THEN Cancelled(entry, fetch) ELSE entry
             patched == c.patch /\ Cached(e)
             begun == c.begin /\ ~Cached(e)
             call == [phase |-> "sent", snapshot |-> IF patched THEN e.data ELSE Absent,
                      seed |-> c.seed, start |-> c.start, settle |-> c.settle,
                      lost |-> c.lost, writes |-> c.writes, effect |-> c.effect]
  <1>1. /\ key \in Keys
        /\ c.effect \in Effects /\ c.writes \in BOOLEAN /\ c.seed \in BOOLEAN
        /\ c.start \in BOOLEAN /\ c.settle \in BOOLEAN /\ c.lost \in BOOLEAN
    BY CallsTyped DEF CacheType
  <1>2. /\ c.patch \/ c.begin \/ c.seed \/ c.start => c.settle
        /\ c.seed \/ c.start \/ c.effect \in Adding => c.writes
    BY <1>1, HooksSettle DEF Adding
  <1>3. NextWrite \in W /\ used' = NextWrite /\ NextWrite > used
    BY Bounds DEF Mutate, BeginWrite, NextWrite, W, CacheType
  <1>4. mine' = [mine EXCEPT ![NextWrite] = call]
    BY DEF Mutate
  <1>5. mine[NextWrite].phase = "idle"
    BY <1>3 DEF CallsSettle, CacheType, NextWrite, W
  <1>6. UNCHANGED <<key, server, unsent, events, timer, gaps>>
    BY DEF Mutate, socket
  <1>7. e \in Entries /\ (c.cancel /\ Busy(fetch) => Safe(e)) /\ (~c.cancel \/ ~Busy(fetch) => e = entry)
    BY DEF Cancelled, CacheType, Requests, RequestTrue
  <1>8. call \in Outstanding
    BY <1>1, <1>7 DEF Outstanding, Entries, Data
  <1>9. /\ mine'[NextWrite] = call
        /\ \A w \in W : w # NextWrite => mine'[w] = mine[w]
        /\ mine' \in [W -> Outstanding]
    BY <1>3, <1>4, <1>8 DEF CacheType
  <1>10. /\ entry' = IF c.drop THEN Nothing ELSE IF begun THEN Set({NextWrite})
                     ELSE IF patched THEN Patched(e, NextWrite) ELSE e
         /\ fetch' = IF c.drop \/ c.cancel THEN Idle ELSE fetch
    BY DEF Mutate
  <1>11. /\ Nothing \in Entries /\ Safe(Nothing)
         /\ Idle \in Requests /\ ~Busy(Idle)
    BY DEF Nothing, Idle, Entries, Data, Requests, Safe, Cached, Busy
  <1>12. Patched(e, NextWrite) \in Entries /\ Set({NextWrite}) \in Entries
    BY <1>3, <1>7 DEF Patched, Set, Entries, Data, Cached
  <1>13. CacheType'
    <2>1. used' \in 0 .. MaxWrites
      BY <1>3, Bounds DEF W
    <2> QED
      BY <2>1, <1>6, <1>7, <1>9, <1>10, <1>11, <1>12 DEF CacheType
  <1>14. CallsSettle'
    <2>1. ASSUME NEW w \in W
          PROVE  /\ mine'[w].phase # "idle" => w <= used'
                 /\ mine'[w].snapshot # Absent \/ mine'[w].seed \/ mine'[w].start => mine'[w].settle
                 /\ mine'[w].seed \/ mine'[w].start \/ mine'[w].effect \in Adding => mine'[w].writes
                 /\ mine'[w].phase = "done" /\ mine'[w].writes => w \in server'
      <3>1. CASE w = NextWrite
        BY <3>1, <1>2, <1>3, <1>9 DEF W
      <3>2. CASE w # NextWrite
        BY <3>2, <1>3, <1>6, <1>9 DEF CallsSettle, CacheType, NextWrite, W
      <3> QED
        BY <3>1, <3>2
    <2> QED
      BY <2>1 DEF CallsSettle
  <1>15. EventsTrue'
    BY <1>6, EventsKept
  <1>16. RequestTrue(fetch)'
    BY <1>6, <1>10, <1>11 DEF RequestTrue
  <1>17. Shows(entry)' \/ Coming'
    <2>1. CASE c.drop
      BY <2>1, <1>10, <1>11 DEF Shows
    <2>2. CASE ~c.drop /\ (patched \/ begun)
      BY <2>2, <1>2, <1>3, <1>9 DEF Coming
    <2>3. CASE ~c.drop /\ ~patched /\ ~begun /\ c.cancel /\ Busy(fetch)
      BY <2>3, <1>7, <1>10 DEF Shows
    <2>4. CASE ~c.drop /\ ~patched /\ ~begun /\ ~(c.cancel /\ Busy(fetch))
      <3>1. entry' = entry /\ (Busy(fetch) => fetch' = fetch)
        BY <2>4, <1>7, <1>10
      <3>2. (\E w \in W : mine[w].phase # "idle" /\ mine[w].settle)
              => \E w \in W : mine'[w].phase # "idle" /\ mine'[w].settle
        BY <1>5, <1>9
      <3> QED
        BY <3>1, <3>2, <1>6 DEF Shows, Excused, Coming
    <2> QED
      BY <2>1, <2>2, <2>3, <2>4
  <1> QED
    BY <1>13, <1>14, <1>15, <1>16, <1>17

LEMMA CommitStep ==
  ASSUME PhantomInv, NEW v \in W, Commit(v)
  PROVE  PhantomInv'
  <1> USE DEF PhantomInv
  <1>1. /\ mine' = [mine EXCEPT ![v].phase = "done"] /\ mine[v].phase = "sent"
        /\ server' = IF mine[v].writes THEN server \cup {v} ELSE server
        /\ UNCHANGED <<key, entry, fetch, events, timer, used>>
        /\ Committed(mine[v].effect, mine[v].lost, v)
    BY DEF Commit, socket
  <1>2. mine[v] \in Outstanding
    BY DEF CacheType
  <1>3. /\ mine' \in [W -> Outstanding]
        /\ mine'[v].phase = "done" /\ mine'[v].snapshot = mine[v].snapshot
        /\ mine'[v].seed = mine[v].seed /\ mine'[v].start = mine[v].start
        /\ mine'[v].settle = mine[v].settle /\ mine'[v].writes = mine[v].writes
        /\ mine'[v].effect = mine[v].effect
        /\ \A w \in W : w # v => mine'[w] = mine[w]
    BY <1>1, <1>2 DEF CacheType, Outstanding
  <1>4. server \subseteq server' /\ server' \subseteq W /\ (mine[v].writes => v \in server')
    BY <1>1 DEF CacheType
  <1>5. mine[v].effect \in Effects /\ (mine[v].effect \in Adding => v \in server')
    BY <1>2, <1>4 DEF Outstanding, CallsSettle
  <1>6. unsent' \subseteq Events /\ EventsTrue' /\ gaps \subseteq gaps'
    BY <1>1, <1>4, <1>5, CommittedTrue
  <1>7. CacheType'
    BY <1>1, <1>3, <1>4, <1>6 DEF CacheType
  <1>8. CallsSettle'
    <2>1. ASSUME NEW w \in W
          PROVE  /\ mine'[w].phase # "idle" => w <= used'
                 /\ mine'[w].snapshot # Absent \/ mine'[w].seed \/ mine'[w].start => mine'[w].settle
                 /\ mine'[w].seed \/ mine'[w].start \/ mine'[w].effect \in Adding => mine'[w].writes
                 /\ mine'[w].phase = "done" /\ mine'[w].writes => w \in server'
      <3>1. CASE w = v
        BY <3>1, <1>1, <1>3, <1>4 DEF CallsSettle
      <3>2. CASE w # v
        BY <3>2, <1>1, <1>3, <1>4 DEF CallsSettle
      <3> QED
        BY <3>1, <3>2
    <2> QED
      BY <2>1 DEF CallsSettle
  <1>9. Coming => Coming'
    BY <1>1, <1>3 DEF Coming
  <1>10. RequestTrue(fetch)' /\ (Shows(entry) \/ Coming)'
    BY <1>1, <1>4, <1>6, <1>9, ExcuseKept DEF RequestTrue, Shows
  <1> QED
    BY <1>6, <1>7, <1>8, <1>10

\* What onSettled leaves, whatever onSuccess or onError made of the entry.
LEMMA SettleStep ==
  ASSUME PhantomInv, NEW v \in W, NEW e \in Entries,
         ~mine[v].settle => e = entry,
         Settle(v, e), UNCHANGED <<key, events, timer, server, unsent, used, gaps>>
  PROVE  PhantomInv'
  <1> USE DEF PhantomInv
  <1>1. mine' = [mine EXCEPT ![v] = NoCall]
    BY DEF Settle
  <1>2. NoCall \in Outstanding
    BY DEF NoCall, Outstanding, Data, Effects
  <1>3. /\ mine' \in [W -> Outstanding] /\ mine'[v] = NoCall
        /\ \A w \in W : w # v => mine'[w] = mine[w]
    BY <1>1, <1>2 DEF CacheType
  <1>4. CallsSettle'
    <2>1. ASSUME NEW w \in W
          PROVE  /\ mine'[w].phase # "idle" => w <= used'
                 /\ mine'[w].snapshot # Absent \/ mine'[w].seed \/ mine'[w].start => mine'[w].settle
                 /\ mine'[w].seed \/ mine'[w].start \/ mine'[w].effect \in Adding => mine'[w].writes
                 /\ mine'[w].phase = "done" /\ mine'[w].writes => w \in server'
      <3>1. CASE w = v
        BY <3>1, <1>3 DEF NoCall, Adding
      <3>2. CASE w # v
        BY <3>2, <1>3 DEF CallsSettle
      <3> QED
        BY <3>1, <3>2
    <2> QED
      BY <2>1 DEF CallsSettle
  <1>5. EventsTrue'
    BY EventsKept
  <1>6. CASE mine[v].settle
    <2>1. Invalidate(e, fetch)
      BY <1>6 DEF Settle
    <2>2. /\ entry' \in Entries /\ fetch' \in Requests
          /\ Safe(entry') /\ RequestTrue(fetch)'
      BY <2>1, InvalidateSafe
    <2> QED
      BY <2>2, <1>3, <1>4, <1>5 DEF CacheType, Shows
  <1>7. CASE ~mine[v].settle
    <2>1. UNCHANGED <<entry, fetch>>
      BY <1>7 DEF Settle
    <2>2. Coming => Coming'
      BY <2>1, <1>3, <1>7 DEF Coming
    <2> QED
      BY <2>1, <2>2, <1>3, <1>4, <1>5 DEF CacheType, Shows, Excused, RequestTrue
  <1> QED
    BY <1>6, <1>7

LEMMA SucceedStep ==
  ASSUME PhantomInv, NEW v \in W, Succeed(v)
  PROVE  PhantomInv'
  <1> DEFINE e == IF mine[v].seed /\ Cached(entry) THEN Set(entry.data \cup {v})
                  ELSE IF mine[v].start /\ ~Cached(entry) THEN Set({v}) ELSE entry
  <1>1. Settle(v, e) /\ UNCHANGED <<key, events, timer, server, unsent, used, gaps>>
    BY DEF Succeed, socket
  <1>2. ~mine[v].settle => e = entry
    BY DEF PhantomInv, CallsSettle
  <1>3. e \in Entries
    BY DEF PhantomInv, CacheType, Entries, Data, Set, Cached
  <1> QED
    BY <1>1, <1>2, <1>3, SettleStep

LEMMA FailStep ==
  ASSUME PhantomInv, NEW v \in W, Fail(v)
  PROVE  PhantomInv'
  <1> DEFINE e == IF mine[v].snapshot = Absent THEN entry ELSE Set(mine[v].snapshot)
  <1>1. Settle(v, e) /\ UNCHANGED <<key, events, timer, server, unsent, used, gaps>>
    BY DEF Fail, socket
  <1>2. ~mine[v].settle => e = entry
    BY DEF PhantomInv, CallsSettle
  <1>3. e \in Entries
    BY DEF PhantomInv, CacheType, Entries, Data, Set, Outstanding
  <1> QED
    BY <1>1, <1>2, <1>3, SettleStep

-----------------------------------------------------------------------------
(* Events and the socket *)

\* A step that leaves the calls and the server alone and handles no event out
\* of turn keeps the invariant if what it leaves is marked, or unchanged.
LEMMA SocketKeeps ==
  ASSUME PhantomInv, Kept, Excused => Excused',
         events' \in Seq(Events), EventsTrue', timer' \subseteq W,
         entry' \in Entries, fetch' \in Requests, RequestTrue(fetch)',
         \/ Safe(entry')
         \/ entry' = entry /\ (Busy(fetch) => Busy(fetch'))
  PROVE  PhantomInv'
  <1>1. CallsSettle'
    BY CallsKept DEF PhantomInv
  <1>2. CacheType'
    BY DEF PhantomInv, CacheType, Kept
  <1>3. Shows(entry)' \/ Coming'
    BY DEF PhantomInv, Shows, Coming, Kept
  <1> QED
    BY <1>1, <1>2, <1>3 DEF PhantomInv

LEMMA HandleEventStep ==
  ASSUME PhantomInv, HandleEvent
  PROVE  PhantomInv'
  <1> USE DEF PhantomInv
  <1> DEFINE effect == Head(events).effect
             w == Head(events).write
             shows == Head(events).shows
  <1>1. events \in Seq(Events) /\ events # <<>>
    BY DEF CacheType, HandleEvent
  <1>2. /\ Head(events) = events[1] /\ 1 \in 1 .. Len(events) /\ Head(events) \in Events
        /\ Tail(events) \in Seq(Events) /\ Len(Tail(events)) = Len(events) - 1
        /\ \A i \in 1 .. Len(events) - 1 : Tail(events)[i] = events[i + 1]
    BY <1>1
  <1>3. /\ w \in W /\ shows \subseteq server /\ server \subseteq W
        /\ effect \in Adding => w \in server
    BY <1>2 DEF Events, EventsTrue, True, CacheType
  <1>4. Kept /\ UNCHANGED server /\ events' = Tail(events)
    BY DEF HandleEvent, Kept, ours
  <1>5. EventsTrue'
    BY <1>1, <1>2, <1>4 DEF EventsTrue, True, Kept
  <1>6. timer' \subseteq W
    BY <1>3 DEF HandleEvent, CacheType
  <1>pick. PICK covers \in Covers(w) :
        LET unmarks == effect \in {"patch", "row"} /\ entry.invalid /\ ~Busy(fetch)
            reverts == effect = "row" /\ ~ (told \cap covers \subseteq shows \cup Awaited)
        IN  /\ gaps' = gaps \cup (IF unmarks THEN {"unmarked"} ELSE {})
                           \cup (IF reverts /\ Cached(entry) THEN {"lost"} ELSE {})
            /\ CASE effect = "patch" -> entry' = Patched(entry, w) /\ UNCHANGED fetch
                 [] effect = "row" -> entry' = Replaced(entry, covers, shows) /\ UNCHANGED fetch
                 [] effect = "invalidate" -> Invalidate(entry, fetch)
                 [] effect = "both" -> PatchedToo(w)
                 [] effect = "remove" -> entry' = Nothing /\ fetch' = Idle
                 [] effect = "debounce" -> UNCHANGED <<entry, fetch>>
    BY DEF HandleEvent
  <1>7. /\ gaps \subseteq gaps'
        /\ effect \in {"patch", "row"} /\ entry.invalid /\ ~Busy(fetch) => "unmarked" \in gaps'
    BY <1>pick
  <1>excused. Excused => Excused'
    BY <1>7, ExcuseKept
  <1>8. \/ effect \in {"patch", "row"} /\ fetch' = fetch
           /\ entry' \in {Patched(entry, w), Replaced(entry, covers, shows)}
        \/ effect = "invalidate" /\ Invalidate(entry, fetch)
        \/ effect = "both" /\ PatchedToo(w)
        \/ effect = "remove" /\ entry' = Nothing /\ fetch' = Idle
        \/ effect = "debounce" /\ entry' = entry /\ fetch' = fetch
    <2>1. effect \in {"patch", "row", "both", "invalidate", "remove", "debounce"}
      BY <1>2 DEF Events, Effects, Adding
    <2> QED
      BY <2>1, <1>pick
  <1>9. CASE effect \in {"patch", "row"}
    <2>1. entry' \in {Patched(entry, w), Replaced(entry, covers, shows)} /\ fetch' = fetch
      BY <1>8, <1>9
    <2>2. ~Cached(entry) => entry' = entry
      BY <2>1 DEF Patched, Replaced
    <2>3. Cached(entry) => /\ entry'.data \subseteq entry.data \cup server
                           /\ entry' \in Entries
      <3>1. ASSUME Cached(entry) PROVE entry.data \subseteq W
        BY <3>1 DEF CacheType, Entries, Data, Cached
      <3>2. \A d : d \subseteq W => Set(d) \in Entries /\ Set(d).data = d
        BY DEF Set, Entries, Data
      <3>3. ASSUME Cached(entry)
            PROVE  \/ entry' = Set(entry.data \cup {w})
                   \/ entry' = Set((entry.data \ covers) \cup shows)
        BY <3>3, <2>1 DEF Patched, Replaced
      <3>4. w \in server
        BY <1>3, <1>9 DEF Adding
      <3> HIDE DEF w, shows
      <3> QED
        BY <3>1, <3>2, <3>3, <3>4, <1>3
    <2>4. entry' \in Entries
      BY <2>2, <2>3 DEF CacheType
    <2>5. RequestTrue(fetch)'
      BY <2>1, <1>4 DEF RequestTrue
    <2>6. CallsSettle' /\ CacheType'
      BY <2>1, <2>4, <1>2, <1>4, <1>6, CallsKept DEF CacheType, Kept
    <2>7. Shows(entry)' \/ Coming'
      <3>1. CASE Coming
        BY <3>1, <2>1, <1>4 DEF Coming, Kept
      <3>2. CASE ~Coming /\ (entry.invalid \/ Excused)
        BY <3>2, <1>7, <1>9, <1>excused DEF Coming, Shows, Excused
      <3>3. CASE ~Cached(entry)
        BY <3>3, <2>2 DEF Shows, Safe
      <3>4. CASE Shows(entry) /\ Cached(entry) /\ ~entry.invalid /\ ~Excused
        <4>1. entry.data \subseteq server
          BY <3>4 DEF Shows, Safe
        <4> QED
          BY <4>1, <3>4, <2>3, <1>4 DEF Shows
      <3> QED
        BY <3>1, <3>2, <3>3, <3>4
    <2> QED
      BY <2>5, <2>6, <2>7, <1>5
  <1>10. CASE effect = "invalidate"
    <2>1. /\ entry' \in Entries /\ fetch' \in Requests
          /\ Safe(entry') /\ RequestTrue(fetch)'
      BY <1>4, <1>8, <1>10, InvalidateSafe DEF CacheType
    <2> QED
      BY <2>1, <1>2, <1>4, <1>5, <1>6, <1>excused, SocketKeeps
  <1>11. CASE effect = "remove"
    <2>1. Nothing \in Entries /\ Safe(Nothing) /\ Idle \in Requests /\ ~Busy(Idle)
      BY DEF Nothing, Idle, Entries, Data, Requests, Safe, Cached, Busy
    <2>2. RequestTrue(Idle)'
      BY <2>1 DEF RequestTrue, Idle, Busy
    <2> QED
      BY <2>1, <2>2, <1>2, <1>4, <1>5, <1>6, <1>excused, <1>8, <1>11, SocketKeeps DEF RequestTrue
  <1>12. CASE effect = "debounce"
    <2>1. entry' = entry /\ fetch' = fetch
      BY <1>8, <1>12
    <2> QED
      BY <2>1, <1>2, <1>4, <1>5, <1>6, <1>excused, SocketKeeps DEF CacheType, RequestTrue
  <1>13. CASE effect = "both"
    <2>1. PatchedToo(w) /\ w \in server
      BY <1>3, <1>8, <1>13 DEF Adding
    <2>2. /\ entry \in Entries /\ Marked(entry) \in Entries /\ Patched(entry, w) \in Entries
          /\ Patched(Marked(entry), w) \in Entries /\ Safe(Marked(entry))
      BY <1>3 DEF CacheType, Marked, Patched, Set, Entries, Data, Cached, Safe
    <2>3. CASE \E e \in Entries : Invalidate(e, fetch)
      <3>1. /\ entry' \in Entries /\ fetch' \in Requests
            /\ Safe(entry') /\ RequestTrue(fetch)'
        BY <2>3, <1>4, InvalidateSafe DEF CacheType
      <3> QED
        BY <3>1, <1>2, <1>4, <1>5, <1>6, <1>excused, SocketKeeps
    <2>4. CASE /\ fetch' = Refetched(entry, fetch)
               /\ entry' = IF active THEN Patched(Marked(entry), w) ELSE Marked(entry)
      <3>1. /\ fetch' \in Requests /\ RequestTrue(fetch)'
            /\ Asked(Marked(entry)) \in Requests /\ Busy(Asked(Marked(entry)))
        BY <2>2, <2>4, <1>4 DEF Refetched, Asked, Requests, RequestTrue, CacheType, Busy
      <3>2. entry' \in Entries
        BY <2>2, <2>4
      <3>3. CASE active
        <4>1. Busy(fetch')
          BY <2>4, <3>1, <3>3 DEF Refetched
        <4>2. CacheType' /\ CallsSettle'
          BY <3>1, <3>2, <1>2, <1>4, <1>6, CallsKept DEF CacheType, Kept
        <4> QED
          BY <3>1, <4>1, <4>2, <1>5 DEF Coming
      <3>4. CASE ~active
        BY <2>2, <2>4, <3>1, <3>2, <3>4, <1>2, <1>4, <1>5, <1>6, <1>excused, SocketKeeps
      <3> QED
        BY <3>3, <3>4
    <2> QED
      BY <2>1, <2>2, <2>3, <2>4 DEF PatchedToo
  <1> QED
    BY <1>8, <1>9, <1>10, <1>11, <1>12, <1>13

LEMMA SocketSteps ==
  ASSUME PhantomInv,
         TimerFires \/ Connect \/ Drop \/ SwitchAway \/ SwitchBack
  PROVE  PhantomInv'
  <1> USE DEF PhantomInv
  <1>1. Kept
    BY DEF TimerFires, Connect, Drop, SwitchAway, SwitchBack, Kept, ours
  <1>2. events' = events \/ events' = <<>>
    BY DEF TimerFires, Connect, Drop, SwitchAway, SwitchBack
  <1>3. events' \in Seq(Events) /\ EventsTrue'
    <2>1. CASE events' = events
      BY <2>1, <1>1, EventsKept DEF CacheType, Kept
    <2>2. CASE events' = <<>>
      BY <2>2, <1>1 DEF EventsTrue, True, Kept
    <2> QED
      BY <2>1, <2>2, <1>2
  <1>4. timer' \subseteq W /\ (Excused => Excused')
    BY DEF TimerFires, Connect, Drop, SwitchAway, SwitchBack, CacheType, Excused
  <1>5. Invalidate(entry, fetch) \/ UNCHANGED <<entry, fetch>>
    BY DEF TimerFires, Connect, Drop, SwitchAway, SwitchBack
  <1>6. CASE Invalidate(entry, fetch)
    <2>1. /\ entry' \in Entries /\ fetch' \in Requests
          /\ Safe(entry') /\ RequestTrue(fetch)'
      BY <1>1, <1>6, InvalidateSafe DEF CacheType, Kept
    <2> QED
      BY <2>1, <1>1, <1>3, <1>4, SocketKeeps
  <1>7. CASE UNCHANGED <<entry, fetch>>
    BY <1>1, <1>3, <1>4, <1>7, SocketKeeps DEF CacheType, RequestTrue, Kept
  <1> QED
    BY <1>5, <1>6, <1>7

LEMMA PublishStep ==
  ASSUME PhantomInv, Publish
  PROVE  PhantomInv'
  <1> USE DEF PhantomInv
  <1>1. PICK a \in unsent :
           /\ unsent' = unsent \ {a}
           /\ events' = IF link = "up" THEN Append(events, a) ELSE events
           /\ gaps' = IF link = "up" THEN gaps ELSE gaps \cup {"missed"}
    BY DEF Publish
  <1>2. UNCHANGED <<key, entry, fetch, timer, server, mine, used>>
    BY DEF Publish
  <1>3. a \in Events /\ events \in Seq(Events)
    BY DEF CacheType
  <1>4. /\ Append(events, a) \in Seq(Events) /\ Len(Append(events, a)) = Len(events) + 1
        /\ \A i \in 1 .. Len(events) + 1 :
               Append(events, a)[i] = IF i = Len(events) + 1 THEN a ELSE events[i]
    BY <1>3
  <1>5. CacheType'
    BY <1>1, <1>2, <1>4 DEF CacheType
  <1>6. EventsTrue'
    <2>1. \A i \in 1 .. Len(events') : events'[i] = a \/ \E j \in 1 .. Len(events) : events'[i] = events[j]
      BY <1>1, <1>3, <1>4
    <2>2. \A b : True(b) => True(b)'
      BY <1>2 DEF True
    <2> QED
      BY <2>1, <2>2, <1>1 DEF EventsTrue
  <1>7. CallsSettle' /\ RequestTrue(fetch)'
    BY <1>2 DEF CallsSettle, RequestTrue
  <1>8. (Shows(entry) \/ Coming)'
    BY <1>1, <1>2, ExcuseKept DEF Shows, Coming
  <1> QED
    BY <1>5, <1>6, <1>7, <1>8

-----------------------------------------------------------------------------

LEMMA PhantomStart == Init => PhantomInv
  <1> SUFFICES ASSUME Init PROVE PhantomInv
    OBVIOUS
  <1>1. /\ Nothing \in Entries /\ Idle \in Requests /\ NoCall \in Outstanding
        /\ Safe(Nothing) /\ ~Busy(Idle)
    BY DEF Nothing, Idle, NoCall, Entries, Data, Requests, Outstanding, Effects, Safe, Cached, Busy
  <1>2. CacheType
    BY <1>1, Bounds DEF Init, CacheType
  <1>3. CallsSettle
    BY DEF Init, CallsSettle, NoCall, Adding
  <1>4. EventsTrue /\ RequestTrue(fetch) /\ Shows(entry)
    BY <1>1 DEF Init, EventsTrue, RequestTrue, Shows
  <1> QED
    BY <1>2, <1>3, <1>4 DEF PhantomInv

LEMMA PhantomKept == PhantomInv /\ [Next]_vars => PhantomInv'
  <1> SUFFICES ASSUME PhantomInv, [Next]_vars PROVE PhantomInv'
    OBVIOUS
  <1>1. CASE Mount \/ MountSeeded \/ Unmount \/ Collect \/ Read \/ Deliver \/ FetchFails
    BY <1>1, CacheSteps
  <1>2. ASSUME NEW c \in OthersCalls[key], OthersWrite(c) PROVE PhantomInv'
    BY <1>2, OthersWriteStep
  <1>3. ASSUME NEW c \in Calls[key], Mutate(c) PROVE PhantomInv'
    BY <1>3, MutateStep
  <1>4. ASSUME NEW w \in W, Commit(w) \/ Succeed(w) \/ Fail(w) PROVE PhantomInv'
    BY <1>4, CommitStep, SucceedStep, FailStep
  <1>5. CASE HandleEvent
    BY <1>5, HandleEventStep
  <1>6. CASE TimerFires \/ Connect \/ Drop \/ SwitchAway \/ SwitchBack
    BY <1>6, SocketSteps
  <1>7. CASE Publish
    BY <1>7, PublishStep
  <1>8. CASE UNCHANGED vars
    BY <1>8 DEF vars, PhantomInv, CacheType, CallsSettle, EventsTrue, True, RequestTrue, Shows,
       Excused, Coming
  <1> QED
    BY <1>1, <1>2, <1>3, <1>4, <1>5, <1>6, <1>7, <1>8 DEF Next

\* What a refused or superseded patch left behind is never shown unmarked once
\* this client's calls and requests have returned: the rollback of onError is
\* always followed by the invalidation of onSettled, and a cancelled request
\* puts back only what was marked or absent.
THEOREM PhantomsGo == Spec => []NoPhantom
  <1>1. PhantomInv => NoPhantom
    BY DEF PhantomInv, NoPhantom, Mutating, InMutation, Coming, Shows, Excused, Safe
  <1> QED
    BY <1>1, PhantomStart, PhantomKept, PTL DEF Spec

-----------------------------------------------------------------------------
(* Type correctness *)

Gaps == {"lost", "missed", "unmarked", "seeded"}

WellMarked(e) == Cached(e) \/ ~e.invalid

\* What CacheType leaves out of TypeOK, and what that rests on: an event or a
\* call is of a write that was begun.
ShapeInv ==
    /\ active \in BOOLEAN /\ before \in BOOLEAN
    /\ link \in {"up", "down", "away"} /\ (link # "up" => events = <<>>)
    /\ WellMarked(entry) /\ WellMarked(fetch.back)
    /\ fetch.answer \subseteq server
    /\ timer \subseteq 1 .. used /\ told \subseteq server /\ server \subseteq 1 .. used
    /\ row \cup bare \subseteq 1 .. used
    /\ \A i \in 1 .. Len(events) : events[i].write \in 1 .. used
    /\ \A a \in unsent : a.write \in 1 .. used
    /\ \A w \in W : mine[w].phase = "idle" => mine[w].snapshot = Absent
    /\ gaps \subseteq Gaps

LEMMA EntriesMarked ==
  ASSUME NEW e, e = Nothing \/ WellMarked(e)
  PROVE  WellMarked(Nothing) /\ WellMarked(Marked(e)) /\ WellMarked(Idle.back)
  BY DEF WellMarked, Marked, Nothing, Cached, Idle

LEMMA InvalidateShape ==
  ASSUME CacheType, ShapeInv, server' = server,
         NEW e \in Entries, WellMarked(e), Invalidate(e, fetch)
  PROVE  WellMarked(entry') /\ WellMarked(fetch'.back) /\ fetch'.answer \subseteq server'
  <1>1. WellMarked(Marked(e))
    BY EntriesMarked
  <1>2. Asked(Marked(e)).back = Marked(e) /\ Asked(Marked(e)).answer = {}
    BY DEF Asked
  <1>3. entry' = Marked(e) /\ (fetch' = fetch \/ fetch' = Asked(Marked(e)))
    BY DEF Invalidate, Refetched
  <1> QED
    BY <1>1, <1>2, <1>3 DEF ShapeInv

LEMMA ShapeCache ==
  ASSUME PhantomInv, ShapeInv,
         Mount \/ MountSeeded \/ Unmount \/ Collect \/ Read \/ Deliver \/ FetchFails
  PROVE  ShapeInv'
  <1>1. UNCHANGED <<link, before, events, timer, server, row, bare, unsent, mine, used>>
    BY DEF Mount, MountSeeded, Unmount, Collect, Read, Deliver, FetchFails, ours, socket
  <1>2. /\ active' \in BOOLEAN /\ gaps' \subseteq Gaps
    BY DEF Mount, MountSeeded, Unmount, Collect, Read, Deliver, FetchFails, ShapeInv, Gaps
  <1>told. told' \subseteq server
    BY DEF Mount, MountSeeded, Unmount, Collect, Read, Deliver, FetchFails, ShapeInv
  <1>3. /\ WellMarked(Nothing) /\ WellMarked(Marked(entry)) /\ WellMarked(Idle.back)
        /\ Idle.answer = {}
    BY EntriesMarked DEF ShapeInv, Idle
  <1>4. WellMarked(entry') /\ WellMarked(fetch'.back) /\ fetch'.answer \subseteq server
    <2>1. CASE Mount
      <3>1. entry' = entry /\ (fetch' = fetch \/ fetch' = Asked(entry))
        BY <2>1 DEF Mount
      <3>2. Asked(entry).back = entry /\ Asked(entry).answer = {}
        BY DEF Asked
      <3> QED
        BY <3>1, <3>2 DEF ShapeInv
    <2>seed. CASE MountSeeded
      <3>1. entry'.invalid = FALSE /\ fetch' = fetch
        BY <2>seed DEF MountSeeded, Set
      <3> QED
        BY <3>1 DEF ShapeInv, WellMarked
    <2>2. CASE Unmount
      BY <2>2 DEF Unmount, ShapeInv
    <2>3. CASE Collect
      BY <2>3, <1>3 DEF Collect
    <2>4. CASE Read
      <3>1. entry' = entry /\ fetch' = [fetch EXCEPT !.at = "answered", !.answer = server]
        BY <2>4 DEF Read
      <3>2. fetch'.back = fetch.back /\ fetch'.answer = server
        BY <3>1 DEF PhantomInv, CacheType, Requests
      <3> QED
        BY <3>1, <3>2 DEF ShapeInv
    <2>5. CASE Deliver
      <3>1. entry'.invalid = FALSE /\ fetch' = Idle
        BY <2>5 DEF Deliver, Set
      <3> QED
        BY <3>1, <1>3 DEF WellMarked
    <2>6. CASE FetchFails
      <3>1. entry' = Marked(entry) /\ fetch' = [Idle EXCEPT !.at = "failed"]
        BY <2>6 DEF FetchFails
      <3>2. fetch'.back = Idle.back /\ fetch'.answer = {}
        BY <3>1 DEF Idle
      <3> QED
        BY <3>1, <3>2, <1>3
    <2> QED
      BY <2>1, <2>seed, <2>2, <2>3, <2>4, <2>5, <2>6
  <1> QED
    BY <1>1, <1>2, <1>told, <1>4 DEF ShapeInv

\* The event of a write, where the write has begun.
LEMMA CommittedShape ==
  ASSUME used \in Nat, used' \in Nat, used <= used', ShapeInv,
         NEW effect, NEW unheard, NEW w \in 1 .. used', Committed(effect, unheard, w)
  PROVE  (\A a \in unsent' : a.write \in 1 .. used') /\ gaps' \subseteq Gaps
  <1>1. EventOf(effect, w).write = w
    BY DEF EventOf
  <1>2. \A a \in unsent' : a \in unsent \/ a = EventOf(effect, w)
    BY DEF Committed
  <1>3. \A a \in unsent' : a.write \in 1 .. used'
    BY <1>1, <1>2 DEF ShapeInv
  <1>4. gaps' \subseteq Gaps
    BY DEF Committed, ShapeInv, Gaps
  <1> QED
    BY <1>3, <1>4

LEMMA BegunShape ==
  ASSUME used \in Nat, row \cup bare \subseteq 1 .. used, NEW c, BeginWrite(c)
  PROVE  used' = used + 1 /\ row' \cup bare' \subseteq 1 .. used'
  <1>1. used' = used + 1 /\ NextWrite = used + 1
    BY DEF BeginWrite, NextWrite
  <1>2. row' \subseteq row \cup {NextWrite} /\ bare' \subseteq bare \cup {NextWrite}
    BY DEF BeginWrite
  <1> QED
    BY <1>1, <1>2

LEMMA ShapeWrites ==
  ASSUME PhantomInv, ShapeInv,
         \/ \E c \in OthersCalls[key] : OthersWrite(c)
         \/ \E c \in Calls[key] : Mutate(c)
         \/ \E w \in W : Commit(w)
  PROVE  ShapeInv'
  <1> USE DEF PhantomInv
  <1>1. /\ events \in Seq(Events) /\ used \in Nat /\ used + 1 \in Nat
        /\ used <= MaxWrites => used + 1 \in 1 .. used + 1
    BY Bounds DEF CacheType
  <1>2. ASSUME NEW c \in OthersCalls[key], OthersWrite(c)
        PROVE  ShapeInv'
    <2>1. /\ used' = used + 1 /\ row' \cup bare' \subseteq 1 .. used'
          /\ server' = server \cup {used + 1}
          /\ UNCHANGED <<entry, active, fetch, link, before, events, timer, mine, told>>
          /\ Committed(c.effect, c.unheard, used + 1)
      BY <1>1, <1>2, BegunShape DEF OthersWrite, NextWrite, socket, ShapeInv
    <2>2. /\ used' \in Nat /\ used <= used' /\ used + 1 \in 1 .. used'
          /\ 1 .. used \subseteq 1 .. used'
      BY <2>1, <1>1
    <2>3. (\A a \in unsent' : a.write \in 1 .. used') /\ gaps' \subseteq Gaps
      BY <1>1, <2>1, <2>2, CommittedShape
    <2> QED
      BY <2>1, <2>2, <2>3 DEF ShapeInv
  <1>3. ASSUME NEW c \in Calls[key], Mutate(c)
        PROVE  ShapeInv'
    <2> DEFINE e == IF c.cancel THEN Cancelled(entry, fetch) ELSE entry
    <2>1. /\ used' = used + 1 /\ NextWrite \in W /\ NextWrite = used + 1
          /\ row' \cup bare' \subseteq 1 .. used'
          /\ UNCHANGED <<link, before, events, timer, server, unsent, told, gaps>>
      <3>1. used < MaxWrites /\ BeginWrite(c) /\ UNCHANGED <<socket, server, unsent, told, gaps>>
        BY <1>3 DEF Mutate, BeginWrite
      <3>2. used' = used + 1 /\ row' \cup bare' \subseteq 1 .. used'
        BY <3>1, <1>1, BegunShape DEF ShapeInv
      <3> QED
        BY <3>1, <3>2, <1>1, Bounds DEF NextWrite, socket, W
    <2>2. 1 .. used \subseteq 1 .. used'
      BY <1>1, <2>1
    <2>3. active' \in BOOLEAN
      <3>1. active' = (active /\ ~c.drop)
        BY <1>3 DEF Mutate
      <3>2. (active /\ ~c.drop) \in BOOLEAN
        OBVIOUS
      <3> QED
        BY <3>1, <3>2, Zenon
    <2>4. e \in Entries /\ WellMarked(e)
      BY DEF Cancelled, CacheType, Requests, ShapeInv
    <2>5. WellMarked(Nothing) /\ WellMarked(Idle.back) /\ Idle.answer = {}
      BY <2>4, EntriesMarked DEF Idle
    <2>6. \A d : WellMarked(Set(d))
      BY DEF WellMarked, Set
    <2>7. WellMarked(entry')
      <3>1. \/ entry' = Nothing \/ entry' = Set({NextWrite})
            \/ entry' = Patched(e, NextWrite) \/ entry' = e
        BY <1>3 DEF Mutate
      <3>2. Patched(e, NextWrite) = e \/ Patched(e, NextWrite) = Set(e.data \cup {NextWrite})
        BY DEF Patched
      <3> HIDE DEF e
      <3> QED
        BY <3>1, <3>2, <2>4, <2>5, <2>6
    <2>8. WellMarked(fetch'.back) /\ fetch'.answer \subseteq server'
      <3>1. fetch' = Idle \/ fetch' = fetch
        BY <1>3 DEF Mutate
      <3> QED
        BY <3>1, <2>1, <2>5 DEF ShapeInv
    <2>9. \A w \in W : mine'[w].phase = "idle" => mine'[w].snapshot = Absent
      <3> DEFINE call == [phase |-> "sent",
                          snapshot |-> IF c.patch /\ Cached(e) THEN e.data ELSE Absent,
                          seed |-> c.seed, start |-> c.start, settle |-> c.settle,
                          lost |-> c.lost, writes |-> c.writes, effect |-> c.effect]
      <3>1. mine' = [mine EXCEPT ![NextWrite] = call]
        BY <1>3 DEF Mutate
      <3>2. call.phase = "sent"
        OBVIOUS
      <3> HIDE DEF call
      <3> QED
        BY <3>1, <3>2, <2>1 DEF CacheType, ShapeInv
    <2> QED
      BY <2>1, <2>2, <2>3, <2>7, <2>8, <2>9 DEF ShapeInv
  <1>4. ASSUME NEW v \in W, Commit(v)
        PROVE  ShapeInv'
    <2>1. /\ mine' = [mine EXCEPT ![v].phase = "done"] /\ mine[v].phase = "sent"
          /\ server' = IF mine[v].writes THEN server \cup {v} ELSE server
          /\ UNCHANGED <<entry, active, fetch, link, before, events, timer, row, bare, used, told>>
          /\ Committed(mine[v].effect, mine[v].lost, v)
      BY <1>4 DEF Commit, socket
    <2>2. v \in 1 .. used
      BY <1>1, <2>1 DEF CallsSettle, W
    <2>3. (\A a \in unsent' : a.write \in 1 .. used') /\ gaps' \subseteq Gaps
      BY <1>1, <2>1, <2>2, CommittedShape
    <2>4. \A w \in W : mine'[w].phase = "idle" => mine'[w].snapshot = Absent
      <3>1. mine'[v].phase = "done" /\ \A w \in W : w # v => mine'[w] = mine[w]
        BY <2>1 DEF CacheType, Outstanding
      <3> QED
        BY <3>1 DEF ShapeInv
    <2> QED
      BY <2>1, <2>2, <2>3, <2>4 DEF ShapeInv
  <1> QED
    BY <1>2, <1>3, <1>4

LEMMA ShapeSettles ==
  ASSUME PhantomInv, ShapeInv, NEW v \in W, Succeed(v) \/ Fail(v)
  PROVE  ShapeInv'
  <1> USE DEF PhantomInv
  <1>1. UNCHANGED <<key, active, link, before, events, timer, server, row, bare, unsent, used, gaps>>
    BY DEF Succeed, Fail, socket
  <1>2. PICK e \in Entries : WellMarked(e) /\ Settle(v, e)
    <2> DEFINE won == IF mine[v].seed /\ Cached(entry) THEN Set(entry.data \cup {v})
                      ELSE IF mine[v].start /\ ~Cached(entry) THEN Set({v}) ELSE entry
               back == IF mine[v].snapshot = Absent THEN entry ELSE Set(mine[v].snapshot)
    <2>1. Settle(v, won) \/ Settle(v, back)
      BY DEF Succeed, Fail
    <2>2. won \in Entries /\ back \in Entries
      BY DEF CacheType, Entries, Data, Set, Outstanding, Cached
    <2>3. WellMarked(won) /\ WellMarked(back)
      BY DEF ShapeInv, WellMarked, Set
    <2> HIDE DEF won, back
    <2> QED
      BY <2>1, <2>2, <2>3
  <1>3. WellMarked(entry') /\ WellMarked(fetch'.back) /\ fetch'.answer \subseteq server'
        /\ told' \subseteq server'
    <2>1. CASE mine[v].settle
      <3>1. Invalidate(e, fetch) /\ told' = told \cup ({v} \cap server)
        BY <2>1, <1>2 DEF Settle
      <3> QED
        BY <3>1, <1>1, <1>2, InvalidateShape DEF ShapeInv
    <2>2. CASE ~mine[v].settle
      BY <2>2, <1>1, <1>2 DEF Settle, ShapeInv
    <2> QED
      BY <2>1, <2>2
  <1>4. \A w \in W : mine'[w].phase = "idle" => mine'[w].snapshot = Absent
    <2>1. mine' = [mine EXCEPT ![v] = NoCall] /\ NoCall.snapshot = Absent
      BY <1>2 DEF Settle, NoCall
    <2> QED
      BY <2>1 DEF CacheType, ShapeInv
  <1> QED
    BY <1>1, <1>3, <1>4 DEF ShapeInv

LEMMA ShapeEvent ==
  ASSUME PhantomInv, ShapeInv, HandleEvent
  PROVE  ShapeInv'
  <1> USE DEF PhantomInv
  <1> DEFINE effect == Head(events).effect
             w == Head(events).write
  <1>1. events \in Seq(Events) /\ events # <<>>
    BY DEF CacheType, HandleEvent
  <1>2. /\ Head(events) = events[1] /\ 1 \in 1 .. Len(events) /\ Head(events) \in Events
        /\ Len(Tail(events)) = Len(events) - 1
        /\ \A i \in 1 .. Len(events) - 1 : Tail(events)[i] = events[i + 1]
    BY <1>1
  <1>3. w \in 1 .. used /\ effect \in {"patch", "row", "both", "invalidate", "remove", "debounce"}
    BY <1>2 DEF ShapeInv, Events, Effects, Adding
  <1>4. UNCHANGED <<link, before, server, row, bare, unsent, mine, used>> /\ events' = Tail(events)
        /\ link = "up"
    BY <1>1 DEF HandleEvent, ours, ShapeInv
  <1>5. \A i \in 1 .. Len(events') : events'[i].write \in 1 .. used'
    BY <1>1, <1>2, <1>4 DEF ShapeInv
  <1>6. timer' \subseteq 1 .. used /\ told' \subseteq server
    BY <1>3 DEF HandleEvent, ShapeInv
  <1>7. gaps' \subseteq Gaps
    BY DEF HandleEvent, ShapeInv, Gaps
  <1>8. active' \in BOOLEAN
    <2>1. active' = (active /\ effect # "remove")
      BY DEF HandleEvent
    <2>2. (active /\ effect # "remove") \in BOOLEAN
      OBVIOUS
    <2> QED
      BY <2>1, <2>2, Zenon
  <1>9. \/ effect = "patch" /\ entry' = Patched(entry, w) /\ fetch' = fetch
        \/ effect = "row" /\ fetch' = fetch /\ \E d : entry' \in {entry, Set(d)}
        \/ effect = "invalidate" /\ Invalidate(entry, fetch)
        \/ effect = "both" /\ PatchedToo(w)
        \/ effect = "remove" /\ entry' = Nothing /\ fetch' = Idle
        \/ effect = "debounce" /\ entry' = entry /\ fetch' = fetch
    BY <1>3 DEF HandleEvent, Replaced
  <1>10. /\ WellMarked(entry) /\ WellMarked(Nothing) /\ WellMarked(Idle.back) /\ Idle.answer = {}
         /\ WellMarked(Marked(entry)) /\ entry \in Entries
    BY EntriesMarked DEF ShapeInv, Idle, CacheType
  <1>11. /\ \A e : WellMarked(e) => WellMarked(Patched(e, w))
         /\ \A d : WellMarked(Set(d))
    BY DEF WellMarked, Patched, Set
  <1>12. Patched(entry, w) \in Entries
    <2>1. w \in W
      BY <1>2 DEF Events
    <2> HIDE DEF w
    <2> QED
      BY <2>1, <1>10 DEF Patched, Set, Entries, Data, Cached
  <1>13. WellMarked(entry') /\ WellMarked(fetch'.back) /\ fetch'.answer \subseteq server'
    <2>1. ASSUME NEW e \in Entries, WellMarked(e), Invalidate(e, fetch)
          PROVE  WellMarked(entry') /\ WellMarked(fetch'.back) /\ fetch'.answer \subseteq server'
      BY <2>1, <1>4, InvalidateShape
    <2>2. CASE PatchedToo(w)
      <3>1. CASE Invalidate(IF active THEN Patched(entry, w) ELSE entry, fetch)
        BY <3>1, <2>1, <1>10, <1>11, <1>12
      <3>2. CASE /\ fetch' = Refetched(entry, fetch)
                 /\ entry' = IF active THEN Patched(Marked(entry), w) ELSE Marked(entry)
        <4>1. WellMarked(entry')
          BY <3>2, <1>10, <1>11
        <4>2. fetch' = fetch \/ fetch' = Asked(Marked(entry))
          BY <3>2 DEF Refetched
        <4>3. Asked(Marked(entry)).back = Marked(entry) /\ Asked(Marked(entry)).answer = {}
          BY DEF Asked
        <4> QED
          BY <4>1, <4>2, <4>3, <1>4, <1>10 DEF ShapeInv
      <3> QED
        BY <2>2, <3>1, <3>2 DEF PatchedToo
    <2> HIDE DEF effect, w
    <2> QED
      BY <2>1, <2>2, <1>4, <1>9, <1>10, <1>11 DEF ShapeInv
  <1> QED
    BY <1>4, <1>5, <1>6, <1>7, <1>8, <1>13 DEF ShapeInv

LEMMA ShapePublish ==
  ASSUME PhantomInv, ShapeInv, Publish
  PROVE  ShapeInv'
  <1>1. PICK a \in unsent :
           /\ unsent' = unsent \ {a}
           /\ events' = IF link = "up" THEN Append(events, a) ELSE events
           /\ gaps' = IF link = "up" THEN gaps ELSE gaps \cup {"missed"}
    BY DEF Publish
  <1>2. /\ UNCHANGED <<entry, active, fetch, link, before, timer, server, row, bare, mine, used, told>>
        /\ events \in Seq(Events)
    BY DEF Publish, PhantomInv, CacheType
  <1>3. /\ Len(Append(events, a)) = Len(events) + 1
        /\ \A i \in 1 .. Len(events) + 1 :
               Append(events, a)[i] = IF i = Len(events) + 1 THEN a ELSE events[i]
    BY <1>2
  <1>4. \A i \in 1 .. Len(events') : events'[i].write \in 1 .. used'
    BY <1>1, <1>2, <1>3 DEF ShapeInv
  <1>5. gaps' \subseteq Gaps
    BY <1>1 DEF ShapeInv, Gaps
  <1> QED
    BY <1>1, <1>2, <1>4, <1>5 DEF ShapeInv

LEMMA ShapeSocket ==
  ASSUME PhantomInv, ShapeInv,
         TimerFires \/ Connect \/ Drop \/ SwitchAway \/ SwitchBack
  PROVE  ShapeInv'
  <1> USE DEF PhantomInv
  <1>1. UNCHANGED <<server, row, bare, unsent, mine, used>>
    BY DEF TimerFires, Connect, Drop, SwitchAway, SwitchBack, ours
  <1>2. /\ link' \in {"up", "down", "away"} /\ (link' # "up" => events' = <<>>)
        /\ before' \in BOOLEAN /\ gaps' \subseteq Gaps
        /\ timer' \subseteq 1 .. used /\ told' \subseteq server
    BY DEF TimerFires, Connect, Drop, SwitchAway, SwitchBack, ShapeInv, Gaps
  <1>3. \A i \in 1 .. Len(events') : events'[i].write \in 1 .. used
    <2>1. events' = events \/ events' = <<>>
      BY DEF TimerFires, Connect, Drop, SwitchAway, SwitchBack
    <2> QED
      BY <2>1 DEF ShapeInv
  <1>4. active' \in BOOLEAN
    <2>1. active' = active \/ active' = (active /\ key = "workspaces")
      BY DEF TimerFires, Connect, Drop, SwitchAway, SwitchBack
    <2>2. (active /\ key = "workspaces") \in BOOLEAN /\ active \in BOOLEAN
      BY DEF ShapeInv
    <2> QED
      BY <2>1, <2>2, Zenon
  <1>5. Invalidate(entry, fetch) \/ UNCHANGED <<entry, fetch>>
    BY DEF TimerFires, Connect, Drop, SwitchAway, SwitchBack
  <1>6. WellMarked(entry') /\ WellMarked(fetch'.back) /\ fetch'.answer \subseteq server'
    BY <1>1, <1>5, InvalidateShape DEF ShapeInv, CacheType
  <1> QED
    BY <1>1, <1>2, <1>3, <1>4, <1>6 DEF ShapeInv

LEMMA ShapeStart == Init => ShapeInv
  <1> SUFFICES ASSUME Init PROVE ShapeInv
    OBVIOUS
  <1>1. WellMarked(Nothing) /\ Idle.back = Nothing /\ Idle.answer = {}
    BY DEF WellMarked, Nothing, Idle
  <1>2. \A w \in W : mine[w].snapshot = Absent
    BY DEF Init, NoCall
  <1>3. /\ entry = Nothing /\ fetch = Idle /\ active = FALSE /\ before = FALSE
        /\ link = "down" /\ events = <<>> /\ timer = {} /\ server = {} /\ told = {} /\ gaps = {}
        /\ row = {} /\ bare = {} /\ unsent = {}
    BY DEF Init
  <1>4. \A i \in 1 .. Len(events) : events[i].write \in 1 .. used
    BY <1>3
  <1> QED
    BY <1>1, <1>2, <1>3, <1>4 DEF ShapeInv

LEMMA ShapeKept == PhantomInv /\ ShapeInv /\ [Next]_vars => ShapeInv'
  <1> SUFFICES ASSUME PhantomInv, ShapeInv, [Next]_vars PROVE ShapeInv'
    OBVIOUS
  <1>1. CASE Mount \/ MountSeeded \/ Unmount \/ Collect \/ Read \/ Deliver \/ FetchFails
    BY <1>1, ShapeCache
  <1>2. CASE \/ \E c \in OthersCalls[key] : OthersWrite(c)
             \/ \E c \in Calls[key] : Mutate(c)
             \/ \E w \in W : Commit(w)
    BY <1>2, ShapeWrites
  <1>3. ASSUME NEW w \in W, Succeed(w) \/ Fail(w) PROVE ShapeInv'
    BY <1>3, ShapeSettles
  <1>4. CASE HandleEvent
    BY <1>4, ShapeEvent
  <1>5. CASE TimerFires \/ Connect \/ Drop \/ SwitchAway \/ SwitchBack
    BY <1>5, ShapeSocket
  <1>6. CASE Publish
    BY <1>6, ShapePublish
  <1>7. CASE UNCHANGED vars
    BY <1>7 DEF vars, ShapeInv
  <1> QED
    BY <1>1, <1>2, <1>3, <1>4, <1>5, <1>6, <1>7 DEF Next

\* The state keeps its shape: what is not cached carries no mark, not even when
\* a cancelled request puts it back; the client hears of committed writes only;
\* and a socket that is not up holds no events.
THEOREM CacheTyped == Spec => []TypeOK
  <1>1. PhantomInv /\ ShapeInv => TypeOK
    <2> SUFFICES ASSUME PhantomInv, ShapeInv PROVE TypeOK
      OBVIOUS
    <2>1. Cached(entry) => entry.data \subseteq W
      BY DEF PhantomInv, CacheType, Entries, Data, Cached
    <2>2. fetch.at \in {"none", "asked", "answered", "failed"} /\ key \in Keys
      BY DEF PhantomInv, CacheType, Requests
    <2> QED
      BY <2>1, <2>2 DEF TypeOK, ShapeInv, WellMarked, Gaps
  <1> QED
    BY <1>1, PhantomStart, PhantomKept, ShapeStart, ShapeKept, PTL DEF Spec

-----------------------------------------------------------------------------
(* Freshness *)

\* The client is still to hear of write w.
Pending(w) ==
    \/ \E a \in unsent : a.write = w
    \/ \E i \in 1 .. Len(events) : events[i].write = w
    \/ w \in timer
    \/ mine[w].phase = "done" /\ mine[w].settle

\* Every committed write is shown, unless the entry is marked, somebody is
\* still to replace or mark it, or the client is still to hear of the write.
ShownInv == gaps = {} => \A w \in server : Pending(w) \/ Safe(entry) \/ w \in entry.data \/ Coming

\* The client has heard of every committed write or is still to hear of it.  So
\* an answer that has all it has heard of lacks only what is still to come, and
\* an older row erases nothing whose own event came first.
HeardInv == gaps = {} => \A w \in server : w \in told \/ Pending(w)

FreshInv == ShownInv /\ HeardInv

\* A call of this client that writes is heard of by its own onSettled or by an
\* event, unless its hook is one that loses it.
CallsHeard == \A w \in W : mine[w].writes => mine[w].settle \/ mine[w].lost \/ mine[w].effect # "none"

LEMMA CallsHeardKept ==
  ASSUME CacheType, CallsHeard, [Next]_vars
  PROVE  CallsHeard'
  <1>1. CASE mine' = mine
    BY <1>1 DEF CallsHeard
  <1>2. ASSUME NEW c \in Calls[key], Mutate(c)
        PROVE  CallsHeard'
    <2>1. c.writes => c.settle \/ c.lost \/ c.effect # "none"
      BY <1>2, HooksHeard DEF CacheType
    <2>2. \/ mine' = mine
          \/ \E call : /\ mine' = [mine EXCEPT ![NextWrite] = call]
                       /\ call.writes => call.settle \/ call.lost \/ call.effect # "none"
      <3> DEFINE e == IF c.cancel THEN Cancelled(entry, fetch) ELSE entry
                 call == [phase |-> "sent",
                          snapshot |-> IF c.patch /\ Cached(e) THEN e.data ELSE Absent,
                          seed |-> c.seed, start |-> c.start, settle |-> c.settle,
                          lost |-> c.lost, writes |-> c.writes, effect |-> c.effect]
      <3>1. mine' = [mine EXCEPT ![NextWrite] = call]
        BY <1>2 DEF Mutate
      <3>2. call.writes => call.settle \/ call.lost \/ call.effect # "none"
        BY <2>1
      <3> HIDE DEF call
      <3> QED
        BY <3>1, <3>2
    <2> QED
      BY <2>2 DEF CallsHeard, CacheType
  <1>3. ASSUME NEW v \in W, Commit(v)
        PROVE  CallsHeard'
    <2>1. mine' = [mine EXCEPT ![v].phase = "done"]
      BY <1>3 DEF Commit
    <2> QED
      BY <2>1 DEF CallsHeard, CacheType, Outstanding
  <1>4. ASSUME NEW v \in W, Succeed(v) \/ Fail(v)
        PROVE  CallsHeard'
    <2>1. mine' = [mine EXCEPT ![v] = NoCall] /\ ~NoCall.writes
      BY <1>4 DEF Succeed, Fail, Settle, NoCall
    <2> QED
      BY <2>1 DEF CallsHeard, CacheType
  <1>5. CASE \/ Mount \/ MountSeeded \/ Unmount \/ Collect \/ Read \/ Deliver \/ FetchFails
             \/ (\E c \in OthersCalls[key] : OthersWrite(c))
             \/ Publish \/ HandleEvent \/ TimerFires \/ Connect \/ Drop \/ SwitchAway \/ SwitchBack
             \/ UNCHANGED vars
    BY <1>5, <1>1 DEF Mount, MountSeeded, Unmount, Collect, Read, Deliver, FetchFails, OthersWrite,
       Publish, HandleEvent, TimerFires, Connect, Drop, SwitchAway, SwitchBack, vars, ours
  <1> QED
    BY <1>2, <1>3, <1>4, <1>5 DEF Next

\* A marked or absent entry shows nothing wrong.
LEMMA InvalidateFresh ==
  ASSUME CacheType, NEW e, e \in Entries, Invalidate(e, fetch), HeardInv,
         gaps' = {} => gaps = {}, server' = server,
         \A w \in server : Pending(w) => w \in told' \/ Pending(w)',
         told \subseteq told'
  PROVE  FreshInv'
  <1>1. Safe(entry')
    BY DEF Invalidate, Marked, Safe, Cached, Entries
  <1> QED
    BY <1>1 DEF FreshInv, ShownInv, HeardInv

LEMMA PendingKept ==
  ASSUME UNCHANGED <<unsent, events, timer, mine>>, NEW w
  PROVE  Pending(w)' <=> Pending(w)
  BY DEF Pending

LEMMA FreshCache ==
  ASSUME PhantomInv, FreshInv,
         Mount \/ MountSeeded \/ Unmount \/ Collect \/ Read \/ Deliver \/ FetchFails
  PROVE  FreshInv'
  <1>1. UNCHANGED <<unsent, events, timer, server, mine>> /\ told \subseteq told'
    BY DEF Mount, MountSeeded, Unmount, Collect, Read, Deliver, FetchFails, ours, socket
  <1>2. \A w : Pending(w)' <=> Pending(w)
    BY <1>1, PendingKept
  <1>3. Safe(Nothing) /\ Safe(Marked(entry)) /\ ~Busy(Idle)
    BY DEF Safe, Nothing, Cached, Marked, Idle, Busy, PhantomInv, CacheType, Entries
  <1>4. ASSUME gaps \subseteq gaps' PROVE HeardInv'
    BY <1>1, <1>2, <1>4 DEF FreshInv, HeardInv
  <1>5. ASSUME Safe(entry)' \/ Coming', gaps \subseteq gaps' PROVE FreshInv'
    BY <1>4, <1>5 DEF FreshInv, ShownInv
  <1>6. CASE Mount \/ Unmount
    <2>1. UNCHANGED <<entry, gaps>> /\ (fetch' = fetch \/ fetch'.at = "asked")
      BY <1>6 DEF Mount, Unmount, Asked
    <2>2. Coming => Coming'
      BY <1>1, <2>1 DEF Coming, Busy
    <2> QED
      BY <1>1, <1>2, <1>4, <2>1, <2>2 DEF FreshInv, ShownInv, Safe
  <1>7. CASE MountSeeded
    <2>1. PICK d \in SUBSET (1 .. used) :
             /\ entry' = Set(d)
             /\ gaps' = IF told \subseteq d /\ \A v \in d \ server : InMutation(v) /\ mine[v].settle
                        THEN gaps ELSE gaps \cup {"seeded"}
      BY <1>7 DEF MountSeeded
    <2>2. gaps \subseteq gaps' /\ (gaps' = {} => told \subseteq d)
      BY <2>1
    <2>3. entry'.data = d
      BY <2>1 DEF Set
    <2>4. gaps' = {} => \A w \in server : Pending(w)' \/ w \in entry'.data
      BY <1>2, <2>2, <2>3 DEF FreshInv, HeardInv
    <2> QED
      BY <1>1, <1>4, <2>2, <2>4 DEF FreshInv, ShownInv
  <1>8. CASE Collect \/ FetchFails
    <2>1. entry' = Nothing \/ entry' = Marked(entry)
      BY <1>8 DEF Collect, FetchFails
    <2>2. gaps' = gaps
      BY <1>8 DEF Collect, FetchFails
    <2> QED
      BY <2>1, <2>2, <1>3, <1>5
  <1>9. CASE Read
    <2>1. fetch.at = "asked" /\ gaps' = gaps
          /\ fetch' = [fetch EXCEPT !.at = "answered", !.answer = server]
      BY <1>9 DEF Read
    <2>2. fetch'.at = "answered"
      BY <2>1 DEF PhantomInv, CacheType, Requests
    <2>3. Coming'
      BY <2>2 DEF Coming, Busy
    <2> QED
      BY <2>1, <2>3, <1>5
  <1>10. CASE Deliver
    <2>1. /\ entry'.data = fetch.answer /\ told' = told \cup fetch.answer
          /\ gaps' = IF fetch.answer = server THEN {}
                     ELSE IF told \subseteq fetch.answer THEN gaps ELSE gaps \cup {"lost"}
      BY <1>10 DEF Deliver, Set
    <2>2. CASE fetch.answer = server
      BY <2>1, <2>2, <1>1 DEF FreshInv, ShownInv, HeardInv
    <2>3. CASE fetch.answer # server
      <3>1. gaps \subseteq gaps' /\ (gaps' = {} => told \subseteq entry'.data)
        BY <2>1, <2>3
      <3> QED
        BY <1>1, <1>2, <1>4, <3>1 DEF FreshInv, ShownInv, HeardInv
    <2> QED
      BY <2>2, <2>3
  <1> QED
    BY <1>6, <1>7, <1>8, <1>9, <1>10

\* A committed write is pending, or a gap.
LEMMA CommittedPending ==
  ASSUME NEW effect, NEW unheard, NEW w, Committed(effect, unheard, w),
         unheard \in BOOLEAN
  PROVE  /\ gaps' = {} => gaps = {} /\ ~unheard
         /\ gaps' = {} /\ effect # "none" => \E a \in unsent' : a.write = w
         /\ unsent \subseteq unsent'
  <1>1. EventOf(effect, w).write = w
    BY DEF EventOf
  <1> QED
    BY <1>1 DEF Committed

LEMMA FreshWrites ==
  ASSUME PhantomInv, CallsHeard, FreshInv,
         \/ \E c \in OthersCalls[key] : OthersWrite(c)
         \/ \E c \in Calls[key] : Mutate(c)
         \/ \E w \in W : Commit(w)
  PROVE  FreshInv'
  <1> USE DEF PhantomInv
  <1>1. events \in Seq(Events) /\ key \in Keys
    BY DEF CacheType
  <1>2. ASSUME NEW c \in OthersCalls[key], OthersWrite(c)
        PROVE  FreshInv'
    <2>0. PICK w : w = NextWrite
      OBVIOUS
    <2>1. /\ server' = server \cup {w}
          /\ UNCHANGED <<entry, fetch, events, timer, mine, told>>
          /\ Committed(c.effect, c.unheard, w)
      BY <1>2, <2>0 DEF OthersWrite, socket
    <2>2. c.unheard \in BOOLEAN /\ (c.unheard \/ c.effect # "none")
      BY <1>1, HooksHeard, CallsTyped
    <2>3. /\ gaps' = {} => gaps = {} /\ Pending(w)'
          /\ \A v : Pending(v) => Pending(v)'
      BY <2>1, <2>2, CommittedPending DEF Pending
    <2>4. Coming' <=> Coming
      BY <2>1 DEF Coming
    <2> QED
      BY <2>1, <2>3, <2>4 DEF FreshInv, ShownInv, HeardInv, Safe
  <1>3. ASSUME NEW c \in Calls[key], Mutate(c)
        PROVE  FreshInv'
    <2> DEFINE e == IF c.cancel THEN Cancelled(entry, fetch) ELSE entry
               call == [phase |-> "sent",
                        snapshot |-> IF c.patch /\ Cached(e) THEN e.data ELSE Absent,
                        seed |-> c.seed, start |-> c.start, settle |-> c.settle,
                        lost |-> c.lost, writes |-> c.writes, effect |-> c.effect]
    <2>1. /\ mine' = [mine EXCEPT ![NextWrite] = call] /\ used < MaxWrites
          /\ entry' = IF c.drop THEN Nothing ELSE IF c.begin /\ ~Cached(e) THEN Set({NextWrite})
                      ELSE IF c.patch /\ Cached(e) THEN Patched(e, NextWrite) ELSE e
          /\ fetch' = IF c.drop \/ c.cancel THEN Idle ELSE fetch
      BY <1>3 DEF Mutate, BeginWrite
    <2>2. UNCHANGED <<unsent, events, timer, server, told, gaps>>
      BY <1>3 DEF Mutate, socket
    <2>3. call.phase = "sent" /\ call.settle = c.settle
      OBVIOUS
    <2>4. e = entry \/ (c.cancel /\ Safe(e))
      BY DEF Cancelled, RequestTrue
    <2>5. e = entry /\ ~c.drop => (Busy(fetch) => Safe(e) \/ Busy(fetch'))
      BY <2>1 DEF Cancelled, RequestTrue
    <2>6. c.patch \/ c.begin => c.settle
      BY <1>1, HooksSettle
    <2> HIDE DEF e, call
    <2>7. NextWrite \in W /\ mine[NextWrite].phase = "idle"
      BY <2>1, Bounds DEF CallsSettle, CacheType, NextWrite, W
    <2>8. mine'[NextWrite] = call /\ \A w \in W : w # NextWrite => mine'[w] = mine[w]
      BY <2>1, <2>7 DEF CacheType
    <2>9. \A w \in server : Pending(w) => Pending(w)'
      <3>1. server \subseteq W
        BY DEF CacheType
      <3> QED
        BY <3>1, <2>2, <2>7, <2>8 DEF Pending
    <2>10. (\E w \in W : mine[w].phase # "idle" /\ mine[w].settle)
             => \E w \in W : mine'[w].phase # "idle" /\ mine'[w].settle
      BY <2>7, <2>8
    <2>12. HeardInv'
      BY <2>2, <2>9 DEF FreshInv, HeardInv
    <2>13. ShownInv'
      <3>1. CASE c.drop
        <4>1. Safe(entry')
          BY <3>1, <2>1 DEF Safe, Cached, Nothing
        <4> QED
          BY <4>1 DEF ShownInv
      <3>2. CASE c.patch \/ c.begin
        <4>1. Coming'
          BY <3>2, <2>3, <2>6, <2>7, <2>8 DEF Coming
        <4> QED
          BY <4>1 DEF ShownInv
      <3>3. CASE ~c.drop /\ ~c.patch /\ ~c.begin
        <4>1. entry' = e
          BY <3>3, <2>1
        <4>2. CASE Safe(e)
          BY <4>1, <4>2 DEF ShownInv
        <4>3. CASE ~Safe(e)
          <5>1. entry' = entry /\ (Coming => Coming')
            BY <3>3, <4>1, <4>3, <2>4, <2>5, <2>10 DEF Coming
          <5> QED
            BY <5>1, <2>2, <2>9 DEF FreshInv, ShownInv, Safe
        <4> QED
          BY <4>2, <4>3
      <3> QED
        BY <3>1, <3>2, <3>3
    <2> QED
      BY <2>12, <2>13 DEF FreshInv
  <1>4. ASSUME NEW v \in W, Commit(v)
        PROVE  FreshInv'
    <2>1. /\ mine' = [mine EXCEPT ![v].phase = "done"] /\ mine[v].phase = "sent"
          /\ server' = IF mine[v].writes THEN server \cup {v} ELSE server
          /\ UNCHANGED <<entry, fetch, events, timer, told>>
          /\ Committed(mine[v].effect, mine[v].lost, v)
      BY <1>4 DEF Commit, socket
    <2>2. /\ mine'[v].phase = "done" /\ mine'[v].settle = mine[v].settle
          /\ \A w \in W : w # v => mine'[w] = mine[w]
      BY <2>1 DEF CacheType, Outstanding
    <2>3. /\ gaps' = {} => gaps = {} /\ ~mine[v].lost
          /\ gaps' = {} /\ mine[v].effect # "none" => \E a \in unsent' : a.write = v
          /\ unsent \subseteq unsent'
      BY <2>1, CommittedPending DEF CacheType, Outstanding
    <2>4. \A u \in W : Pending(u) => Pending(u)'
      BY <2>1, <2>2, <2>3 DEF Pending
    <2>5. gaps' = {} /\ mine[v].writes => Pending(v)'
      BY <2>2, <2>3 DEF CallsHeard, Pending
    <2>6. Coming' <=> Coming
      BY <2>1, <2>2 DEF Coming
    <2>7. server \subseteq W
      BY DEF CacheType
    <2> QED
      BY <2>1, <2>3, <2>4, <2>5, <2>6, <2>7 DEF FreshInv, ShownInv, HeardInv, Safe
  <1> QED
    BY <1>2, <1>3, <1>4

LEMMA FreshSettles ==
  ASSUME PhantomInv, FreshInv, NEW v \in W, Succeed(v) \/ Fail(v)
  PROVE  FreshInv'
  <1> USE DEF PhantomInv
  <1>1. UNCHANGED <<unsent, events, timer, server, gaps>>
    BY DEF Succeed, Fail, socket
  <1>2. PICK e \in Entries : Settle(v, e) /\ (~mine[v].settle => e = entry)
    <2> DEFINE won == IF mine[v].seed /\ Cached(entry) THEN Set(entry.data \cup {v})
                      ELSE IF mine[v].start /\ ~Cached(entry) THEN Set({v}) ELSE entry
               back == IF mine[v].snapshot = Absent THEN entry ELSE Set(mine[v].snapshot)
    <2>1. Settle(v, won) \/ Settle(v, back)
      BY DEF Succeed, Fail
    <2>2. won \in Entries /\ back \in Entries
      BY DEF CacheType, Entries, Data, Set, Outstanding, Cached
    <2>3. ~mine[v].settle => won = entry /\ back = entry
      BY DEF CallsSettle
    <2> HIDE DEF won, back
    <2> QED
      BY <2>1, <2>2, <2>3
  <1>3. mine'[v] = NoCall /\ \A w \in W : w # v => mine'[w] = mine[w]
    BY <1>2 DEF Settle, CacheType
  <1>4. \A w \in W : w # v \/ ~mine[v].settle => (Pending(w) => Pending(w)')
    BY <1>1, <1>3 DEF Pending
  <1>5. server \subseteq W
    BY DEF CacheType
  <1>6. CASE mine[v].settle
    <2>1. Invalidate(e, fetch) /\ told' = told \cup ({v} \cap server)
      BY <1>2, <1>6 DEF Settle
    <2> QED
      BY <2>1, <1>1, <1>4, <1>5, InvalidateFresh DEF FreshInv
  <1>7. CASE ~mine[v].settle
    <2>1. UNCHANGED <<entry, fetch, told>>
      BY <1>2, <1>7 DEF Settle
    <2>2. Coming => Coming'
      BY <2>1, <1>3, <1>7 DEF Coming
    <2> QED
      BY <2>1, <2>2, <1>1, <1>4, <1>5, <1>7 DEF FreshInv, ShownInv, HeardInv, Safe
  <1> QED
    BY <1>6, <1>7

LEMMA FreshEvent ==
  ASSUME PhantomInv, FreshInv, HandleEvent
  PROVE  FreshInv'
  <1> USE DEF PhantomInv
  <1> DEFINE effect == Head(events).effect
             shows == Head(events).shows
  <1>1. events \in Seq(Events) /\ events # <<>>
    BY DEF CacheType, HandleEvent
  <1>2. /\ Head(events) = events[1] /\ Head(events) \in Events
        /\ Len(Tail(events)) = Len(events) - 1 /\ Len(events) \in Nat
        /\ \A i \in 1 .. Len(events) - 1 : Tail(events)[i] = events[i + 1]
    BY <1>1
  <1>3. effect \in {"patch", "row", "both", "invalidate", "remove", "debounce"}
    BY <1>2 DEF Events, Effects, Adding
  <1>head. PICK w \in W : w = Head(events).write
    BY <1>2 DEF Events
  <1>4. /\ UNCHANGED <<server, unsent, mine>> /\ events' = Tail(events)
        /\ timer' = (IF effect = "debounce" THEN timer \cup {w} ELSE timer)
        /\ told' = (IF effect = "debounce" THEN told ELSE told \cup ({w} \cap server))
    BY <1>head DEF HandleEvent, ours
  <1>pick. PICK covers \in Covers(w) :
        /\ gaps \subseteq gaps'
        /\ effect \in {"patch", "row"} /\ entry.invalid /\ ~Busy(fetch) => "unmarked" \in gaps'
        /\ effect = "row" /\ Cached(entry) /\ ~ (told \cap covers \subseteq shows \cup Awaited)
             => "lost" \in gaps'
        /\ effect = "patch" => entry' = Patched(entry, w) /\ fetch' = fetch
        /\ effect = "row" => entry' = Replaced(entry, covers, shows) /\ fetch' = fetch
        /\ effect = "invalidate" => Invalidate(entry, fetch)
        /\ effect = "both" => PatchedToo(w)
        /\ effect = "remove" => entry' = Nothing /\ fetch' = Idle
        /\ effect = "debounce" => entry' = entry /\ fetch' = fetch
    BY <1>head DEF HandleEvent
  <1>5. ASSUME NEW u, Pending(u), u # w PROVE Pending(u)'
    <2>1. CASE \E i \in 1 .. Len(events) : events[i].write = u
      <3>1. PICK i \in 1 .. Len(events) : events[i].write = u
        BY <2>1
      <3>2. i # 1
        BY <3>1, <1>2, <1>5, <1>head
      <3>3. i - 1 \in 1 .. Len(events) - 1 /\ (i - 1) + 1 = i
        BY <3>2, <1>2
      <3>4. Tail(events)[i - 1] = events[i]
        BY <3>3, <1>2
      <3>5. i - 1 \in 1 .. Len(events') /\ events'[i - 1].write = u
        BY <3>1, <3>3, <3>4, <1>2, <1>4
      <3> QED
        BY <3>5 DEF Pending
    <2>2. CASE \/ \E a \in unsent : a.write = u
               \/ u \in timer \/ (mine[u].phase = "done" /\ mine[u].settle)
      BY <2>2, <1>4 DEF Pending
    <2> QED
      BY <2>1, <2>2, <1>5 DEF Pending
  <1>6. effect = "debounce" => Pending(w)'
    BY <1>4 DEF Pending
  <1>7. \A u \in server : Pending(u) => u \in told' \/ Pending(u)'
    BY <1>4, <1>5, <1>6
  <1>8. told \subseteq told' /\ (gaps' = {} => gaps = {})
    BY <1>4, <1>pick
  <1>9. \/ effect = "patch" /\ entry' = Patched(entry, w) /\ fetch' = fetch
        \/ effect = "row" /\ entry' = Replaced(entry, covers, shows) /\ fetch' = fetch
        \/ effect = "invalidate" /\ Invalidate(entry, fetch)
        \/ effect = "both" /\ PatchedToo(w)
        \/ effect = "remove" /\ entry' = Nothing /\ fetch' = Idle
        \/ effect = "debounce" /\ entry' = entry /\ fetch' = fetch
    BY <1>3, <1>pick
  <1>10. HeardInv'
    BY <1>4, <1>7, <1>8 DEF FreshInv, HeardInv
  <1>11. entry \in Entries /\ Marked(entry) \in Entries /\ Patched(entry, w) \in Entries
    BY DEF CacheType, Marked, Patched, Set, Entries, Data, Cached
  <1>12. ASSUME NEW e \in Entries, Invalidate(e, fetch) PROVE FreshInv'
    BY <1>12, <1>4, <1>7, <1>8, InvalidateFresh DEF FreshInv
  <1>13. CASE effect = "patch"
    <2>1. entry' = Patched(entry, w) /\ fetch' = fetch
      BY <1>9, <1>13
    <2>2. Coming => Coming'
      BY <2>1, <1>4 DEF Coming
    <2>3. CASE ~Cached(entry)
      <3>1. Safe(entry')
        BY <2>1, <2>3 DEF Patched, Safe
      <3> QED
        BY <3>1, <2>1, <1>10 DEF FreshInv, ShownInv
    <2>4. CASE Cached(entry)
      <3>1. entry'.data = entry.data \cup {w}
        BY <2>1, <2>4 DEF Patched, Set
      <3>2. gaps' = {} => ~entry.invalid \/ Busy(fetch)
        BY <1>pick, <1>13
      <3>3. gaps' = {} => ~Safe(entry) \/ Coming
        BY <3>2, <2>4 DEF Safe, Coming
      <3>4. ASSUME gaps' = {}, NEW u \in server
            PROVE  Pending(u)' \/ u \in entry'.data \/ Coming'
        <4>1. gaps = {}
          BY <3>4, <1>8
        <4>2. Pending(u) \/ u \in entry.data \/ Coming
          BY <4>1, <3>3, <3>4 DEF FreshInv, ShownInv
        <4> QED
          BY <4>2, <2>2, <3>1, <1>5
      <3> QED
        BY <3>4, <2>1, <1>4, <1>10 DEF FreshInv, ShownInv
    <2> QED
      BY <2>3, <2>4
  <1>row. CASE effect = "row"
    <2>1. entry' = Replaced(entry, covers, shows) /\ fetch' = fetch
      BY <1>9, <1>row
    <2>2. Coming => Coming'
      BY <2>1, <1>4 DEF Coming
    <2>3. CASE ~Cached(entry)
      <3>1. Safe(entry')
        BY <2>1, <2>3 DEF Replaced, Safe
      <3> QED
        BY <3>1, <1>10 DEF FreshInv, ShownInv
    <2>4. CASE Cached(entry)
      <3>1. entry'.data = (entry.data \ covers) \cup shows
        BY <2>1, <2>4 DEF Replaced, Set
      <3>2. gaps' = {} => ~Safe(entry) \/ Coming
        BY <1>pick, <1>row, <2>4 DEF Safe, Coming
      <3>3. w \in shows
        BY <1>1, <1>2, <1>head, <1>row DEF EventsTrue, True
      <3>4. ASSUME gaps' = {}, NEW u \in server
            PROVE  Pending(u)' \/ u \in entry'.data \/ Coming'
        <4>1. gaps = {} /\ told \cap covers \subseteq shows \cup Awaited
          BY <3>4, <1>8, <1>pick, <1>row, <2>4
        <4>2. Pending(u) \/ u \in entry.data \/ Coming
          BY <4>1, <3>2, <3>4 DEF FreshInv, ShownInv
        <4>3. CASE Pending(u)
          BY <4>3, <1>5, <3>1, <3>3
        <4>4. CASE u \in entry.data /\ ~Pending(u)
          <5>1. u \in told
            BY <4>1, <4>4 DEF FreshInv, HeardInv
          <5>2. u \in Awaited => Pending(u)'
            BY <1>4 DEF Awaited, Pending
          <5> QED
            BY <5>1, <5>2, <4>1, <4>4, <3>1
        <4> QED
          BY <4>2, <4>3, <4>4, <2>2
      <3> QED
        BY <3>4, <2>1, <1>4, <1>10 DEF FreshInv, ShownInv
    <2> QED
      BY <2>3, <2>4
  <1>14. CASE effect = "debounce"
    <2>1. entry' = entry /\ fetch' = fetch
      BY <1>9, <1>14
    <2>2. Coming => Coming'
      BY <2>1, <1>4 DEF Coming
    <2>3. \A u : Pending(u) => Pending(u)'
      BY <1>5, <1>6, <1>14
    <2> QED
      BY <2>1, <2>2, <2>3, <1>4, <1>8, <1>10 DEF FreshInv, ShownInv, Safe
  <1>15. CASE effect = "remove"
    <2>1. entry' = Nothing /\ fetch' = Idle
      BY <1>9, <1>15
    <2>2. Safe(Nothing)
      BY DEF Safe, Nothing, Cached
    <2> QED
      BY <2>1, <2>2, <1>10 DEF FreshInv, ShownInv
  <1>16. CASE effect = "both"
    <2>1. PatchedToo(w)
      BY <1>9, <1>16
    <2>2. CASE Invalidate(IF active THEN Patched(entry, w) ELSE entry, fetch)
      BY <2>2, <1>11, <1>12
    <2>3. CASE /\ fetch' = Refetched(entry, fetch)
               /\ entry' = IF active THEN Patched(Marked(entry), w) ELSE Marked(entry)
      <3>3. Safe(Marked(entry))
        BY <1>11 DEF Safe, Marked, Entries, Cached
      <3>4. CASE active /\ Cached(entry)
        <4>1. fetch'.at = "asked"
          BY <2>3, <3>4 DEF Refetched, Asked
        <4>2. Coming'
          BY <4>1 DEF Coming, Busy
        <4> QED
          BY <4>2, <1>10 DEF FreshInv, ShownInv
      <3>5. CASE ~active \/ ~Cached(entry)
        <4>1. Safe(entry')
          BY <2>3, <3>3, <3>5 DEF Patched, Marked, Safe
        <4> QED
          BY <4>1, <1>10 DEF FreshInv, ShownInv
      <3> QED
        BY <3>4, <3>5
    <2> QED
      BY <2>1, <2>2, <2>3 DEF PatchedToo
  <1>17. CASE effect = "invalidate"
    BY <1>9, <1>11, <1>12, <1>17
  <1> QED
    BY <1>3, <1>13, <1>row, <1>14, <1>15, <1>16, <1>17

LEMMA FreshSocket ==
  ASSUME PhantomInv, ShapeInv, FreshInv,
         TimerFires \/ Connect \/ Drop \/ SwitchAway \/ SwitchBack
  PROVE  FreshInv'
  <1> USE DEF PhantomInv
  <1>1. UNCHANGED <<server, unsent, mine>> /\ entry \in Entries
    BY DEF TimerFires, Connect, Drop, SwitchAway, SwitchBack, ours, CacheType
  <1>2. CASE TimerFires
    <2>1. /\ timer' = {} /\ told' = told \cup (timer \cap server)
          /\ Invalidate(entry, fetch) /\ UNCHANGED <<events, gaps>>
      BY <1>2 DEF TimerFires
    <2>2. \A w \in server : Pending(w) => w \in told' \/ Pending(w)'
      BY <2>1, <1>1 DEF Pending
    <2> QED
      BY <2>1, <2>2, <1>1, InvalidateFresh DEF FreshInv
  <1>3. ASSUME UNCHANGED <<entry, fetch, events, timer, told, gaps>> PROVE FreshInv'
    <2>1. (Coming' <=> Coming) /\ \A w : Pending(w)' <=> Pending(w)
      BY <1>1, <1>3, PendingKept DEF Coming
    <2> QED
      BY <2>1, <1>1, <1>3 DEF FreshInv, ShownInv, HeardInv, Safe
  <1>4. CASE Connect
    <2>1. CASE /\ Invalidate(entry, fetch)
               /\ told' = told \cup server
      <3>1. Safe(entry') /\ server \subseteq told'
        BY <2>1, <1>1 DEF Invalidate, Marked, Safe, Cached, Entries
      <3> QED
        BY <3>1, <1>1 DEF FreshInv, ShownInv, HeardInv
    <2> QED
      BY <1>3, <1>4, <2>1 DEF Connect
  <1>5. CASE Drop \/ SwitchAway
    <2>1. UNCHANGED <<entry, fetch, told>> /\ events' = <<>> /\ timer' \in {timer, {}}
          /\ (gaps' = {} => gaps = {} /\ events = <<>> /\ timer' = timer)
      BY <1>5 DEF Drop, SwitchAway
    <2>2. gaps' # {} => FreshInv'
      BY DEF FreshInv, ShownInv, HeardInv
    <2> QED
      BY <2>1, <2>2, <1>3
  <1>6. CASE SwitchBack
    BY <1>3, <1>6 DEF SwitchBack
  <1> QED
    BY <1>2, <1>4, <1>5, <1>6

\* A published event is with the client, or missed.
LEMMA FreshPublish ==
  ASSUME PhantomInv, FreshInv, Publish
  PROVE  FreshInv'
  <1>1. PICK a \in unsent :
           /\ unsent' = unsent \ {a}
           /\ events' = IF link = "up" THEN Append(events, a) ELSE events
           /\ gaps' = IF link = "up" THEN gaps ELSE gaps \cup {"missed"}
    BY DEF Publish
  <1>2. /\ UNCHANGED <<entry, fetch, timer, server, mine, told>>
        /\ events \in Seq(Events)
    BY DEF Publish, PhantomInv, CacheType
  <1>3. /\ Len(Append(events, a)) = Len(events) + 1 /\ Len(events) + 1 \in 1 .. Len(events) + 1
        /\ \A i \in 1 .. Len(events) + 1 :
               Append(events, a)[i] = IF i = Len(events) + 1 THEN a ELSE events[i]
    BY <1>2
  <1>4. CASE link = "up"
    <2>1. \E i \in 1 .. Len(events') : events'[i].write = a.write
      BY <1>1, <1>3, <1>4
    <2>2. \A u : (\E i \in 1 .. Len(events) : events[i].write = u)
                   => \E i \in 1 .. Len(events') : events'[i].write = u
      BY <1>1, <1>2, <1>3, <1>4
    <2>3. \A u : Pending(u) => Pending(u)'
      BY <1>1, <1>2, <2>1, <2>2 DEF Pending
    <2>4. gaps' = gaps /\ (Coming' <=> Coming)
      BY <1>1, <1>2, <1>4 DEF Coming
    <2> QED
      BY <1>2, <2>3, <2>4 DEF FreshInv, ShownInv, HeardInv, Safe
  <1>5. CASE link # "up"
    <2>1. gaps' # {}
      BY <1>1, <1>5
    <2> QED
      BY <2>1 DEF FreshInv, ShownInv, HeardInv
  <1> QED
    BY <1>4, <1>5

LEMMA FreshKept ==
  PhantomInv /\ ShapeInv /\ CallsHeard /\ FreshInv /\ [Next]_vars => FreshInv'
  <1> SUFFICES ASSUME PhantomInv, ShapeInv, CallsHeard, FreshInv, [Next]_vars PROVE FreshInv'
    OBVIOUS
  <1>1. CASE Mount \/ MountSeeded \/ Unmount \/ Collect \/ Read \/ Deliver \/ FetchFails
    BY <1>1, FreshCache
  <1>2. CASE \/ \E c \in OthersCalls[key] : OthersWrite(c)
             \/ \E c \in Calls[key] : Mutate(c)
             \/ \E w \in W : Commit(w)
    BY <1>2, FreshWrites
  <1>3. ASSUME NEW w \in W, Succeed(w) \/ Fail(w) PROVE FreshInv'
    BY <1>3, FreshSettles
  <1>4. CASE HandleEvent
    BY <1>4, FreshEvent
  <1>5. CASE TimerFires \/ Connect \/ Drop \/ SwitchAway \/ SwitchBack
    BY <1>5, FreshSocket
  <1>6. CASE Publish
    BY <1>6, FreshPublish
  <1>7. CASE UNCHANGED vars
    BY <1>7 DEF vars, FreshInv, ShownInv, HeardInv, Pending, Safe, Coming
  <1> QED
    BY <1>1, <1>2, <1>3, <1>4, <1>5, <1>6, <1>7 DEF Next

\* When nothing is under way, an unmarked entry shows exactly what the server
\* holds, unless one of the gaps was met: whatever order the hooks, their
\* rollbacks, the events, the refreshes and the requests came in.
THEOREM FreshAtRest == Spec => []FreshWhenQuiet
  <1>1. Init => CallsHeard /\ FreshInv
    BY DEF Init, CallsHeard, NoCall, FreshInv, ShownInv, HeardInv
  <1>2. CallsHeard /\ PhantomInv /\ [Next]_vars => CallsHeard'
    BY CallsHeardKept DEF PhantomInv
  <1>3. PhantomInv /\ FreshInv => FreshWhenQuiet
    <2> SUFFICES ASSUME PhantomInv, FreshInv, Quiet, gaps = {}, Cached(entry), ~entry.invalid
                 PROVE  entry.data = server
      BY DEF FreshWhenQuiet, Fresh
    <2>1. ~Coming /\ ~Safe(entry)
      BY DEF Quiet, Mutating, InMutation, Coming, Safe
    <2>2. entry.data \subseteq server
      BY <2>1 DEF PhantomInv, Shows, Excused
    <2>3. \A w \in server : ~Pending(w)
      BY DEF PhantomInv, CacheType, Quiet, Mutating, InMutation, Pending
    <2> QED
      BY <2>1, <2>2, <2>3 DEF FreshInv, ShownInv
  <1> QED
    BY <1>1, <1>2, <1>3, PhantomStart, PhantomKept, ShapeStart, ShapeKept, FreshKept, PTL DEF Spec

-----------------------------------------------------------------------------
(* No view is left waiting *)

\* An invalidation leaves a mounted query with a request under way.
LEMMA InvalidateFetches ==
  ASSUME NEW e, Invalidate(e, fetch), active
  PROVE  Busy(fetch')
  BY DEF Invalidate, Refetched, Asked, Busy

LEMMA WaitCache ==
  ASSUME PhantomInv, NeverWaits,
         Mount \/ MountSeeded \/ Unmount \/ Collect \/ Read \/ Deliver \/ FetchFails
  PROVE  NeverWaits'
  <1>1. UNCHANGED mine
    BY DEF Mount, MountSeeded, Unmount, Collect, Read, Deliver, FetchFails, ours
  <1>2. CASE Mount
    BY <1>1, <1>2 DEF Mount, NeverWaits, InMutation, Asked, Busy, Cached
  <1>seed. CASE MountSeeded
    <2>1. PICK d \in SUBSET (1 .. used) : entry' = Set(d)
      BY <1>seed DEF MountSeeded
    <2>2. d \in SUBSET W
      BY Bounds DEF PhantomInv, CacheType, W
    <2>3. Cached(entry') /\ ~entry'.invalid
      BY <2>1, <2>2, AbsentIsNoData DEF Set, Cached
    <2> QED
      BY <2>3 DEF NeverWaits, InMutation
  <1>3. CASE Unmount \/ Collect
    BY <1>3 DEF Unmount, Collect, NeverWaits
  <1>4. CASE Read
    BY <1>1, <1>4 DEF Read, NeverWaits, InMutation, Busy, PhantomInv, CacheType, Requests
  <1>5. CASE Deliver
    <2>1. fetch.answer # Absent
      BY AbsentIsNoData DEF PhantomInv, CacheType, Requests
    <2>2. Cached(entry') /\ ~entry'.invalid
      BY <1>5, <2>1 DEF Deliver, Set, Cached
    <2> QED
      BY <2>2 DEF NeverWaits, InMutation
  <1>6. CASE FetchFails
    BY <1>6 DEF FetchFails, NeverWaits, Idle
  <1> QED
    BY <1>2, <1>seed, <1>3, <1>4, <1>5, <1>6

\* A call that cancels the request of a mounted query settles, and its own
\* onSettled invalidates the query.
LEMMA WaitMutate ==
  ASSUME PhantomInv, NeverWaits, NEW c \in Calls[key], Mutate(c)
  PROVE  NeverWaits'
  <1> DEFINE e == IF c.cancel THEN Cancelled(entry, fetch) ELSE entry
             patched == c.patch /\ Cached(e)
             begun == c.begin /\ ~Cached(e)
  <1>1. c.cancel \/ c.patch \/ c.begin => c.settle
    BY HooksSettle DEF PhantomInv, CacheType
  <1>2. NextWrite \in W /\ mine[NextWrite].phase = "idle"
    BY Bounds DEF Mutate, BeginWrite, NextWrite, W, PhantomInv, CacheType, CallsSettle
  <1>3. /\ mine'[NextWrite].phase = "sent" /\ mine'[NextWrite].settle = c.settle
        /\ \A w \in W : w # NextWrite => mine'[w] = mine[w]
    BY <1>2 DEF Mutate, PhantomInv, CacheType
  <1>4. CASE c.drop
    BY <1>4 DEF Mutate, NeverWaits
  <1>5. CASE ~c.drop /\ c.settle
    BY <1>2, <1>3, <1>5 DEF NeverWaits, InMutation
  <1>6. CASE ~c.drop /\ ~c.settle
    <2>1. ~c.cancel /\ ~patched /\ ~begun
      BY <1>1, <1>6
    <2>2. entry' = entry /\ fetch' = fetch /\ (active' => active)
      BY <1>6, <2>1 DEF Mutate
    <2>3. (\E w \in W : mine[w].phase # "idle" /\ mine[w].settle)
            => \E w \in W : mine'[w].phase # "idle" /\ mine'[w].settle
      BY <1>2, <1>3
    <2> QED
      BY <2>2, <2>3 DEF NeverWaits, InMutation
  <1> QED
    BY <1>4, <1>5, <1>6

LEMMA WaitCommit ==
  ASSUME PhantomInv, NeverWaits, NEW v \in W, Commit(v)
  PROVE  NeverWaits'
  <1>1. UNCHANGED <<entry, fetch, active>> /\ mine[v].phase = "sent"
    BY DEF Commit
  <1>2. \A w \in W : /\ mine'[w].settle = mine[w].settle
                     /\ mine[w].phase # "idle" => mine'[w].phase # "idle"
    BY DEF Commit, PhantomInv, CacheType, Outstanding
  <1> QED
    BY <1>1, <1>2 DEF NeverWaits, InMutation

LEMMA WaitSettle ==
  ASSUME PhantomInv, NeverWaits, NEW v \in W, NEW e, Settle(v, e),
         ~mine[v].settle => e = entry, UNCHANGED active
  PROVE  NeverWaits'
  <1>1. CASE mine[v].settle
    BY <1>1, InvalidateFetches DEF Settle, NeverWaits
  <1>2. CASE ~mine[v].settle
    <2>1. UNCHANGED <<entry, fetch>>
      BY <1>2 DEF Settle
    <2>2. \A w \in W : w # v => mine'[w] = mine[w]
      BY DEF Settle, PhantomInv, CacheType
    <2> QED
      BY <1>2, <2>1, <2>2 DEF NeverWaits, InMutation
  <1> QED
    BY <1>1, <1>2

LEMMA WaitEnds ==
  ASSUME PhantomInv, NeverWaits, NEW v \in W, Succeed(v) \/ Fail(v)
  PROVE  NeverWaits'
  <1>1. mine[v].snapshot # Absent \/ mine[v].seed \/ mine[v].start => mine[v].settle
    BY DEF PhantomInv, CallsSettle
  <1>2. CASE Succeed(v)
    <2> DEFINE e == IF mine[v].seed /\ Cached(entry) THEN Set(entry.data \cup {v})
                    ELSE IF mine[v].start /\ ~Cached(entry) THEN Set({v}) ELSE entry
    <2>1. Settle(v, e) /\ UNCHANGED active /\ (~mine[v].settle => e = entry)
      BY <1>1, <1>2 DEF Succeed
    <2> QED
      BY <2>1, WaitSettle
  <1>3. CASE Fail(v)
    <2> DEFINE e == IF mine[v].snapshot = Absent THEN entry ELSE Set(mine[v].snapshot)
    <2>1. Settle(v, e) /\ UNCHANGED active /\ (~mine[v].settle => e = entry)
      BY <1>1, <1>3 DEF Fail
    <2> QED
      BY <2>1, WaitSettle
  <1> QED
    BY <1>2, <1>3

LEMMA EventsTyped ==
  ASSUME PhantomInv, HandleEvent
  PROVE  Head(events) \in Events
  BY DEF HandleEvent, PhantomInv, CacheType

LEMMA WaitEvent ==
  ASSUME PhantomInv, NeverWaits, HandleEvent
  PROVE  NeverWaits'
  <1> DEFINE effect == Head(events).effect
             w == Head(events).write
             shows == Head(events).shows
  <1>1. UNCHANGED mine /\ active' = (active /\ effect # "remove")
    BY DEF HandleEvent, ours
  <1>2. CASE effect = "remove"
    BY <1>1, <1>2 DEF NeverWaits, InMutation
  <1>3. CASE effect = "patch"
    <2>1. entry' = Patched(entry, w) /\ fetch' = fetch
      BY <1>3 DEF HandleEvent
    <2>2. ~Cached(entry) => entry' = entry
      BY <2>1 DEF Patched
    <2>3. w \in W
      BY EventsTyped DEF Events
    <2>4. Cached(entry) => entry.data \cup {w} \in SUBSET W
      BY <2>3 DEF Cached, PhantomInv, CacheType, Entries, Data
    <2>5. Cached(entry) => entry' = [data |-> entry.data \cup {w}, invalid |-> FALSE]
      BY <2>1 DEF Patched, Set
    <2>6. Cached(entry) => ~entry'.invalid /\ Cached(entry')
      BY <2>4, <2>5, AbsentIsNoData DEF Cached
    <2> QED
      BY <1>1, <2>1, <2>2, <2>6 DEF NeverWaits, InMutation
  <1>row. CASE effect = "row"
    <2>1. PICK covers : entry' = Replaced(entry, covers, shows) /\ fetch' = fetch
      BY <1>row DEF HandleEvent
    <2>2. ~Cached(entry) => entry' = entry
      BY <2>1 DEF Replaced
    <2>3. shows \in SUBSET W
      BY EventsTyped DEF Events
    <2>4. Cached(entry) => (entry.data \ covers) \cup shows \in SUBSET W
      BY <2>3 DEF Cached, PhantomInv, CacheType, Entries, Data
    <2>5. Cached(entry) => entry' = [data |-> (entry.data \ covers) \cup shows, invalid |-> FALSE]
      BY <2>1 DEF Replaced, Set
    <2>6. Cached(entry) => ~entry'.invalid /\ Cached(entry')
      BY <2>4, <2>5, AbsentIsNoData DEF Cached
    <2> QED
      BY <1>1, <2>1, <2>2, <2>6 DEF NeverWaits, InMutation
  <1>4. CASE effect = "invalidate"
    BY <1>1, <1>4, InvalidateFetches DEF HandleEvent, NeverWaits, InMutation
  <1>5. CASE effect = "both"
    <2>1. PatchedToo(w)
      BY <1>5 DEF HandleEvent
    <2>2. active => Busy(fetch')
      BY <2>1 DEF PatchedToo, Invalidate, Refetched, Asked, Busy
    <2> QED
      BY <1>1, <2>2 DEF NeverWaits, InMutation
  <1>6. CASE effect = "debounce"
    BY <1>1, <1>6 DEF HandleEvent, NeverWaits, InMutation
  <1>7. effect \in {"patch", "row", "invalidate", "both", "remove", "debounce"}
    BY EventsTyped DEF Events, Effects, Adding
  <1> QED
    BY <1>2, <1>3, <1>row, <1>4, <1>5, <1>6, <1>7

LEMMA WaitSocket ==
  ASSUME PhantomInv, NeverWaits,
         TimerFires \/ Connect \/ Drop \/ SwitchAway \/ SwitchBack
  PROVE  NeverWaits'
  <1>1. UNCHANGED mine
    BY DEF TimerFires, Connect, Drop, SwitchAway, SwitchBack, ours
  <1>2. CASE TimerFires
    BY <1>2, InvalidateFetches DEF TimerFires, NeverWaits, InMutation
  <1>3. CASE Connect
    <2>1. UNCHANGED active /\ (Invalidate(entry, fetch) \/ UNCHANGED <<entry, fetch>>)
      BY <1>3 DEF Connect
    <2> QED
      BY <1>1, <2>1, InvalidateFetches DEF NeverWaits, InMutation
  <1>4. CASE Drop \/ SwitchBack
    BY <1>1, <1>4 DEF Drop, SwitchBack, NeverWaits, InMutation
  <1>5. CASE SwitchAway
    BY <1>1, <1>5 DEF SwitchAway, NeverWaits, InMutation
  <1> QED
    BY <1>2, <1>3, <1>4, <1>5

LEMMA WaitKept == PhantomInv /\ NeverWaits /\ [Next]_vars => NeverWaits'
  <1> SUFFICES ASSUME PhantomInv, NeverWaits, [Next]_vars PROVE NeverWaits'
    OBVIOUS
  <1>1. CASE Mount \/ MountSeeded \/ Unmount \/ Collect \/ Read \/ Deliver \/ FetchFails
    BY <1>1, WaitCache
  <1>2. ASSUME NEW c \in OthersCalls[key], OthersWrite(c) PROVE NeverWaits'
    BY <1>2 DEF OthersWrite, NeverWaits, InMutation
  <1>3. ASSUME NEW c \in Calls[key], Mutate(c) PROVE NeverWaits'
    BY <1>3, WaitMutate
  <1>4. ASSUME NEW w \in W, Commit(w) \/ Succeed(w) \/ Fail(w) PROVE NeverWaits'
    BY <1>4, WaitCommit, WaitEnds
  <1>5. CASE HandleEvent
    BY <1>5, WaitEvent
  <1>6. CASE TimerFires \/ Connect \/ Drop \/ SwitchAway \/ SwitchBack
    BY <1>6, WaitSocket
  <1>7. CASE Publish
    BY <1>7 DEF Publish, NeverWaits, InMutation
  <1>8. CASE UNCHANGED vars
    BY <1>8 DEF vars, NeverWaits, InMutation
  <1> QED
    BY <1>1, <1>2, <1>3, <1>4, <1>5, <1>6, <1>7, <1>8 DEF Next

\* No view is left waiting: mounting, cancelling, refusing, dropping the socket
\* and leaving the workspace never end with a mounted query that has nothing
\* fresh to show and nobody to fetch it, whatever the hooks, provided that a
\* hook that cancels also settles (HooksSettle).
THEOREM NoViewWaits == Spec => []NeverWaits
  <1>1. Init => NeverWaits
    BY DEF Init, NeverWaits
  <1> QED
    BY <1>1, PhantomStart, PhantomKept, WaitKept, PTL DEF Spec
=============================================================================
