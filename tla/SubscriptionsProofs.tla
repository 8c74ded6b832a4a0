------------------------- MODULE SubscriptionsProofs -------------------------
(***************************************************************************)
(* Proofs about Subscriptions and the Manifest it is composed with, for    *)
(* every manifest, set of sockets, filters and envelopes, and any number   *)
(* of faults.                                                              *)
(*                                                                         *)
(* The properties speak of the moments when no event is under way, or of   *)
(* the tables alone.  What holds between the two writes of an event, and   *)
(* while the process starts, is what has to be found:                      *)
(*                                                                         *)
(*   TypeInv      types, and what each task still to be done relies on     *)
(*   ManifestInv  the map in memory holds nothing but rows of the table;   *)
(*                a row it lacks is being provisioned, waits for the load  *)
(*                at the start, or is the work of a failure                *)
(*   GapsByFaultOnly, inductive with TypeInv: an organ without a mailbox   *)
(*                and an incomplete changelog are being written or are the *)
(*                work of a fault                                          *)
(*   CacheInv     the cache and the registry agree on every organ and      *)
(*                filter but those of the task under way                   *)
(*   NamesInv     whoever has a name on a connection has a mailbox         *)
(***************************************************************************)
EXTENDS Subscriptions, SequenceFacts

-----------------------------------------------------------------------------
(* Definitions.                                                            *)

Booting == task.kind \in {"changelog", "seed", "seedMailbox"}

TaskIsDue ==
  /\ task.kind = "changelog" => changelog < MessageTypes
  /\ task.kind = "seedMailbox" => task.next \in DOMAIN Seeds
  /\ task.kind = "addMailbox" => task.organ \in DOMAIN manifest

TablesAreFinite == IsFiniteSet(registry) /\ IsFiniteSet(DOMAIN manifest)

EachFilterOnce ==
  \A o \in DOMAIN cache : IsInjective(cache[o]) /\ cache[o] # <<>>

TypeInv == TypeOK /\ TaskIsDue /\ TablesAreFinite /\ EachFilterOnce

\* Rows of the manifest that the map in memory lacks, but for the one whose
\* provisioning is under way.
Hidden ==
  DOMAIN manifest
    \ (DOMAIN known \cup IF task.kind = "addMailbox" THEN {task.organ} ELSE {})

ManifestInv ==
  /\ \A o \in DOMAIN known : o \in DOMAIN manifest /\ known[o] = manifest[o]
  /\ ~Booting => Cardinality(Hidden) <= failures

NamesInv == \A s \in Sockets : organ[s] # NoOrgan => organ[s] \in mailboxes

\* The cache may lag behind the registry in the entry of the task under way.
Lagging(o, filter) ==
  /\ task.kind \in {"subscribe", "unsubscribe"}
  /\ task.organ = o /\ task.filter = filter

EntriesAgree ==
  ~Booting => \A o \in Organs, filter \in Filters :
    \/ Lagging(o, filter)
    \/ <<o, filter>> \in registry <=>
         o \in DOMAIN cache /\ filter \in ToSet(cache[o])

TaskWrote ==
  /\ task.kind = "subscribe" => <<task.organ, task.filter>> \in registry
  /\ task.kind = "unsubscribe" => <<task.organ, task.filter>> \notin registry

CacheInv ==
  /\ told \subseteq registry
  /\ EntriesAgree /\ TaskWrote

-----------------------------------------------------------------------------
(* Types.                                                                  *)

LEMMA TaskKinds ==
  ASSUME TypeOK
  PROVE  /\ task.kind \in {"subscribe", "unsubscribe"} =>
              task.organ \in Organs /\ task.filter \in Filters
         /\ task.kind = "addMailbox" => task.organ \in Organs
         /\ task.kind \in {"seed", "seedMailbox"} =>
              /\ task \in [kind : {"seed", "seedMailbox"},
                           next : 1..Len(Seeds) + 1]
              /\ task.next \in 1..Len(Seeds) + 1
BY DEF TypeOK, Tasks, Idle, BootTasks, ProvisioningTasks

\* Seeding goes through the seeds from the first to the last.
LEMMA SeedFacts ==
  /\ Len(Seeds) \in Nat /\ DOMAIN Seeds = 1..Len(Seeds)
  /\ \A n \in DOMAIN Seeds :
       Seeds[n].organ \in Organs /\ Seeds[n].required \in BOOLEAN
  /\ \A n \in DOMAIN Seeds \cup {0} : Seed(n + 1) \in BootTasks
  /\ InitDatabase \in BootTasks
<1>1. /\ Len(Seeds) \in Nat /\ DOMAIN Seeds = 1..Len(Seeds)
      /\ \A n \in DOMAIN Seeds :
           Seeds[n] \in [organ : Organs, required : BOOLEAN]
  BY SeedsAssumption, LenProperties, ElementOfSeq
<1>2. \A n \in DOMAIN Seeds \cup {0} : n + 1 \in 1..Len(Seeds) + 1
  BY <1>1
<1>3. \A n \in DOMAIN Seeds \cup {0} : Seed(n + 1) \in BootTasks
  BY <1>2 DEF Seed, BootTasks
<1>4. Seed(1) \in BootTasks
  BY <1>2 DEF Seed, BootTasks
<1>5. [kind |-> "changelog"] \in BootTasks
  BY DEF BootTasks
<1>6. InitDatabase \in BootTasks
  BY <1>4, <1>5 DEF InitDatabase
<1>7. \A n \in DOMAIN Seeds :
        Seeds[n].organ \in Organs /\ Seeds[n].required \in BOOLEAN
  BY <1>1
<1> QED
  BY <1>1, <1>3, <1>6, <1>7

LEMMA MapFacts ==
  /\ \A map \in Maps : /\ DOMAIN map \subseteq Organs
                       /\ \A o \in DOMAIN map : map[o] \in BOOLEAN
  /\ \A map \in Maps, o \in Organs, required \in BOOLEAN :
       With(map, o, required) \in Maps
  /\ \A map, o, v : /\ DOMAIN With(map, o, v) = DOMAIN map \cup {o}
                    /\ With(map, o, v)[o] = v
                    /\ \A p \in DOMAIN map \ {o} : With(map, o, v)[p] = map[p]
<1>1. ASSUME NEW map \in Maps
      PROVE  /\ DOMAIN map \subseteq Organs
             /\ \A o \in DOMAIN map : map[o] \in BOOLEAN
  BY DEF Maps
<1>2. ASSUME NEW map \in Maps, NEW o \in Organs, NEW required \in BOOLEAN
      PROVE  With(map, o, required) \in Maps
  <2>1. With(map, o, required) \in [DOMAIN map \cup {o} -> BOOLEAN]
    BY <1>1 DEF With
  <2>2. DOMAIN map \cup {o} \in SUBSET Organs
    BY <1>1
  <2> QED
    BY <2>1, <2>2 DEF Maps
<1> QED
  BY <1>1, <1>2 DEF With

\* The filters an organ has in the registry are finitely many.
LEMMA FiltersAreFinite ==
  ASSUME IsFiniteSet(registry), NEW o
  PROVE  IsFiniteSet({filter \in Filters : <<o, filter>> \in registry})
<1> DEFINE some == {filter \in Filters : <<o, filter>> \in registry}
           f == [filter \in some |-> <<o, filter>>]
<1>1. f \in Injection(some, registry)
  BY DEF Injection, IsInjective
<1> QED
  BY <1>1, FS_Injection

LEMMA InitTypes == Init => TypeInv
<1> SUFFICES ASSUME Init PROVE TypeInv
  OBVIOUS
<1>1. task \in BootTasks
  BY SeedFacts DEF Init, ManifestInit
<1>2. /\ 0 \in 0..MessageTypes /\ 0 \in 0..MaxFaults /\ 0 < MessageTypes
  BY ManifestBounds
<1>3. <<>> \in Maps
  <2>1. <<>> \in [{} -> BOOLEAN]
    OBVIOUS
  <2> QED
    BY <2>1 DEF Maps
<1>4. ManifestTypeOK
  BY <1>2, <1>3 DEF ManifestTypeOK, Init, ManifestInit
<1>5. TaskIsDue
  BY <1>2 DEF Init, ManifestInit, InitDatabase, Seed, TaskIsDue
<1>6. TablesAreFinite /\ EachFilterOnce
  BY FS_EmptySet DEF Init, ManifestInit, TablesAreFinite, EachFilterOnce
<1> QED
  BY <1>1, <1>4, <1>5, <1>6 DEF Init, TypeInv, TypeOK, Tasks

LEMMA ProvisionTypes ==
  ASSUME TypeInv, Provision, UNCHANGED <<registry, cache, sockets, told>>
  PROVE  TypeInv'
<1> USE DEF TypeInv
<1>1. /\ manifest \in Maps /\ known \in Maps /\ mailboxes \subseteq Organs
      /\ changelog \in 0..MessageTypes /\ MessageTypes \in Nat
      /\ failures \in 0..MaxFaults /\ restarts \in 0..MaxFaults
      /\ MaxFaults \in Nat
  BY ManifestBounds DEF TypeOK, ManifestTypeOK
<1>2. SUFFICES /\ task' \in Tasks /\ ManifestTypeOK' /\ TaskIsDue'
                 /\ IsFiniteSet(DOMAIN manifest')
  BY DEF TypeOK, sockets, TablesAreFinite, EachFilterOnce
<1>10. IsFiniteSet(DOMAIN manifest)
  BY DEF TablesAreFinite
<1>11. UNCHANGED manifest => IsFiniteSet(DOMAIN manifest')
  BY <1>10
<1>3. CASE SeedChangelog
  <2>1. task.kind = "changelog" /\ changelog' = changelog + 1
        /\ UNCHANGED <<manifest, mailboxes, known, failures, restarts>>
        /\ task' = (IF changelog' = MessageTypes THEN Seed(1) ELSE task)
    BY <1>3 DEF SeedChangelog, faults
  <2>2. changelog' \in 0..MessageTypes
    BY <1>1, <2>1 DEF TaskIsDue
  <2>3. task' \in Tasks
    BY <2>1, SeedFacts DEF TypeOK, Tasks
  <2>4. TaskIsDue'
    BY <1>1, <2>1, <2>2 DEF TaskIsDue, Seed
  <2> QED
    BY <1>1, <1>11, <2>1, <2>2, <2>3, <2>4 DEF ManifestTypeOK
<1>4. CASE SeedOrgan
  <2>1. /\ task.kind = "seed" /\ task.next \in DOMAIN Seeds
        /\ UNCHANGED <<mailboxes, changelog, known, failures, restarts>>
    BY <1>4 DEF SeedOrgan, faults
  <2>2. /\ task \in [kind : {"seed", "seedMailbox"}, next : 1..Len(Seeds) + 1]
        /\ Seeds[task.next].organ \in Organs
        /\ Seeds[task.next].required \in BOOLEAN
    BY <2>1, TaskKinds, SeedFacts
  <2>3. \/ task' = Seed(task.next + 1) /\ UNCHANGED manifest
        \/ /\ manifest' = With(manifest, Seeds[task.next].organ,
                               Seeds[task.next].required)
           /\ task' = [task EXCEPT !.kind = "seedMailbox"]
    BY <1>4 DEF SeedOrgan
  <2>4. /\ manifest' \in Maps
        /\ DOMAIN manifest' \in {DOMAIN manifest,
                                 DOMAIN manifest \cup {Seeds[task.next].organ}}
    <3>1. CASE UNCHANGED manifest
      BY <1>1, <3>1
    <3>2. CASE manifest' = With(manifest, Seeds[task.next].organ,
                                Seeds[task.next].required)
      <4>1. manifest' \in Maps
        BY <1>1, <2>2, <3>2, MapFacts
      <4>2. DOMAIN manifest' = DOMAIN manifest \cup {Seeds[task.next].organ}
        BY <3>2, MapFacts
      <4> QED
        BY <4>1, <4>2
    <3> QED
      BY <2>3, <3>1, <3>2
  <2>7. IsFiniteSet(DOMAIN manifest')
    BY <1>10, <2>4, FS_AddElement
  <2>5. task' \in BootTasks
    <3>1. [task EXCEPT !.kind = "seedMailbox"] \in BootTasks
      BY <2>2 DEF BootTasks
    <3> QED
      BY <2>1, <2>3, <3>1, SeedFacts
  <2>6. TaskIsDue'
    BY <2>1, <2>2, <2>3 DEF TaskIsDue, Seed
  <2> QED
    BY <1>1, <2>1, <2>4, <2>5, <2>6, <2>7 DEF ManifestTypeOK, Tasks
<1>5. CASE SeedMailbox
  <2>1. task.kind = "seedMailbox" /\ task.next \in DOMAIN Seeds
    BY <1>5 DEF SeedMailbox, TaskIsDue
  <2>2. mailboxes' \subseteq Organs /\ task' \in BootTasks
    BY <1>1, <1>5, <2>1, SeedFacts DEF SeedMailbox
  <2> QED
    BY <1>1, <1>5, <1>11, <2>2
       DEF SeedMailbox, ManifestTypeOK, Tasks, TaskIsDue, faults, Seed
<1>6. ASSUME NEW o \in Organs, NEW required \in BOOLEAN, AddOrgan(o, required)
      PROVE  /\ task' \in Tasks /\ ManifestTypeOK' /\ TaskIsDue'
             /\ IsFiniteSet(DOMAIN manifest')
  <2>1. manifest' \in Maps /\ DOMAIN manifest' = DOMAIN manifest \cup {o}
    BY <1>1, <1>6, MapFacts DEF AddOrgan
  <2>2. IsFiniteSet(DOMAIN manifest')
    BY <1>10, <2>1, FS_AddElement
  <2> QED
    BY <1>1, <1>6, <2>1, <2>2
       DEF AddOrgan, ManifestTypeOK, Tasks, ProvisioningTasks, TaskIsDue, faults
<1>7. CASE AddMailbox
  <2>1. /\ task.kind = "addMailbox" /\ task.organ \in Organs
        /\ manifest[task.organ] \in BOOLEAN
    BY <1>1, <1>7, TaskKinds, MapFacts DEF AddMailbox, TaskIsDue
  <2>2. known' \in Maps /\ mailboxes' \subseteq Organs
    BY <1>1, <1>7, <2>1, MapFacts DEF AddMailbox
  <2> QED
    BY <1>1, <1>7, <1>11, <2>2
       DEF AddMailbox, ManifestTypeOK, Tasks, TaskIsDue, Idle, faults
<1>8. CASE AddMailboxFails
  <2>1. failures' \in 0..MaxFaults
    BY <1>1, <1>8 DEF AddMailboxFails, MayFail
  <2> QED
    BY <1>1, <1>8, <1>11, <2>1
       DEF AddMailboxFails, ManifestTypeOK, Tasks, TaskIsDue, Idle, provisioning
<1>9. ASSUME NEW o \in Organs, RegisterMailbox(o)
      PROVE  /\ task' \in Tasks /\ ManifestTypeOK' /\ TaskIsDue'
             /\ IsFiniteSet(DOMAIN manifest')
  BY <1>1, <1>9, <1>11
     DEF RegisterMailbox, ManifestTypeOK, TypeOK, TaskIsDue, faults
<1> QED
  BY <1>3, <1>4, <1>5, <1>6, <1>7, <1>8, <1>9 DEF Provision

LEMMA StartTypes ==
  ASSUME TypeInv, Start
  PROVE  TypeInv'
<1> USE DEF TypeInv, TablesAreFinite
<1>1. cache' = LoadSubscriptionCache /\ UNCHANGED <<registry, sockets, told>>
  BY DEF Start
<1>2. DOMAIN cache' \subseteq Organs
  BY <1>1 DEF LoadSubscriptionCache, TypeOK, Entries
<1>3. ASSUME NEW o \in DOMAIN cache'
      PROVE  /\ cache'[o] \in Seq(Filters)
             /\ IsInjective(cache'[o]) /\ cache'[o] # <<>>
  <2> DEFINE some == {filter \in Filters : <<o, filter>> \in registry}
  <2>1. cache'[o] = SetToSeq(some)
    BY <1>1 DEF LoadSubscriptionCache
  <2>2. IsFiniteSet(some)
    BY FiltersAreFinite
  <2>3. some # {}
    BY <1>1 DEF LoadSubscriptionCache, TypeOK, Entries
  <2>4. /\ SetToSeq(some) \in Seq(some) /\ IsInjective(SetToSeq(some))
        /\ SetToSeq(some) # <<>>
    BY <2>2, <2>3, ListOfSet
  <2> QED
    BY <2>1, <2>4, SeqMonotonic
<1>4. task' \in Tasks /\ ManifestTypeOK' /\ TaskIsDue' /\ UNCHANGED manifest
  BY DEF Start, LoadManifest, TypeOK, ManifestTypeOK, Tasks, TaskIsDue, Idle,
         faults
<1> QED
  BY <1>1, <1>2, <1>3, <1>4 DEF TypeOK, sockets, EachFilterOnce

LEMMA SubscriptionTypes ==
  ASSUME TypeInv,
         \/ \E s \in Sockets, filter \in Filters :
              Subscribe(s, filter) \/ Unsubscribe(s, filter)
         \/ SubscribeCache \/ UnsubscribeCache
  PROVE  TypeInv'
<1> USE DEF TypeInv, TablesAreFinite
<1> DEFINE CachesList(o) == /\ cache'[o] \in Seq(Filters)
                            /\ IsInjective(cache'[o]) /\ cache'[o] # <<>>
<1>1. UNCHANGED <<sockets, provisioning, faults>>
  BY DEF Subscribe, Unsubscribe, SubscribeCache, UnsubscribeCache
<1>2. SUFFICES /\ registry' \subseteq Entries /\ IsFiniteSet(registry')
               /\ DOMAIN cache' \subseteq Organs
               /\ \A o \in DOMAIN cache' : CachesList(o)
               /\ task' \in Tasks /\ told' \subseteq Entries
               /\ task'.kind \in {"idle", "subscribe", "unsubscribe"}
  BY <1>1 DEF TypeOK, sockets, provisioning, faults, ManifestTypeOK, TaskIsDue,
              EachFilterOnce
<1>3. ASSUME NEW s \in Sockets, NEW filter \in Filters,
             Subscribe(s, filter) \/ Unsubscribe(s, filter)
      PROVE  /\ registry' \subseteq Entries /\ IsFiniteSet(registry')
             /\ UNCHANGED cache
             /\ task' \in Tasks /\ told' \subseteq Entries
             /\ task'.kind \in {"subscribe", "unsubscribe"}
  <2>1. organ[s] \in Organs /\ UNCHANGED cache
    BY <1>3 DEF Subscribe, Unsubscribe, Speaks, TypeOK
  <2>2. <<organ[s], filter>> \in Entries
    BY <2>1 DEF Entries
  <2>3. registry' \in {registry \cup {<<organ[s], filter>>},
                       registry \ {<<organ[s], filter>>}}
    BY <1>3 DEF Subscribe, Unsubscribe
  <2>4. registry' \subseteq Entries /\ told' \subseteq Entries
    BY <1>3, <2>2, <2>3 DEF Subscribe, Unsubscribe, TypeOK
  <2>5. IsFiniteSet(registry')
    BY <2>3, FS_AddElement, FS_RemoveElement
  <2>6. /\ task' \in Tasks
        /\ task'.kind \in {"subscribe", "unsubscribe"}
    BY <1>3, <2>1 DEF Subscribe, Unsubscribe, Tasks
  <2> QED
    BY <2>1, <2>4, <2>5, <2>6
<1>4. CASE SubscribeCache \/ UnsubscribeCache
  <2>1. /\ task.organ \in Organs /\ task.filter \in Filters
        /\ task' = Idle /\ UNCHANGED registry
    BY <1>4, TaskKinds DEF SubscribeCache, UnsubscribeCache
  <2>2. told' \subseteq Entries
    BY <1>4, <2>1 DEF SubscribeCache, UnsubscribeCache, TypeOK, Entries
  <2>3. /\ Cached(task.organ) \in Seq(Filters)
        /\ IsInjective(Cached(task.organ))
    BY DEF Cached, TypeOK, EachFilterOnce, IsInjective
  <2>4. \A list : /\ cache' = With(cache, task.organ, list)
                  /\ list \in Seq(Filters) /\ IsInjective(list) /\ list # <<>>
                  => /\ DOMAIN cache' \subseteq Organs
                     /\ \A o \in DOMAIN cache' : CachesList(o)
    BY <2>1 DEF With, TypeOK, EachFilterOnce
  <2>5. CASE SubscribeCache
    <3> DEFINE list == IF Contains(Cached(task.organ), task.filter)
                       THEN Cached(task.organ)
                       ELSE Append(Cached(task.organ), task.filter)
    <3> SUFFICES /\ DOMAIN cache' \subseteq Organs
                 /\ \A o \in DOMAIN cache' : CachesList(o)
      BY <2>1, <2>2 DEF TypeOK, Tasks, Idle
    <3>0. cache' = With(cache, task.organ, list)
      BY <2>5 DEF SubscribeCache, WithCached
    <3>1. CASE Contains(Cached(task.organ), task.filter)
      <4>1. Cached(task.organ) # <<>>
        BY <3>1 DEF Contains
      <4> QED
        BY <2>3, <2>4, <3>0, <3>1, <4>1
    <3>2. CASE ~Contains(Cached(task.organ), task.filter)
      <4>1. task.filter \notin ToSet(Cached(task.organ))
        BY <2>3, <3>2, ContainsIsMember
      <4>2. /\ list \in Seq(Filters) /\ IsInjective(list) /\ list # <<>>
        BY <2>1, <2>3, <3>2, <4>1, AppendNew, AppendProperties
      <4> QED
        BY <2>4, <3>0, <4>2
    <3> QED
      BY <3>1, <3>2
  <2>6. CASE UnsubscribeCache
    <3> DEFINE left == RemoveFirst(Cached(task.organ), task.filter)
    <3> SUFFICES /\ DOMAIN cache' \subseteq Organs
                 /\ \A o \in DOMAIN cache' : CachesList(o)
      BY <2>1, <2>2 DEF TypeOK, Tasks, Idle
    <3>1. left \in Seq(Filters) /\ IsInjective(left)
      BY <2>3, ListWithout
    <3>2. CASE left = <<>>
      <4>1. cache' = [o \in DOMAIN cache \ {task.organ} |-> cache[o]]
        BY <2>6, <3>2 DEF UnsubscribeCache, Restrict
      <4> QED
        BY <4>1 DEF TypeOK, EachFilterOnce
    <3>3. CASE left # <<>>
      <4>1. cache' = With(cache, task.organ, left)
        BY <2>6, <3>3 DEF UnsubscribeCache, WithCached
      <4> QED
        BY <2>4, <3>1, <3>3, <4>1
    <3> QED
      BY <3>2, <3>3
  <2> QED
    BY <1>4, <2>5, <2>6
<1> QED
  BY <1>3, <1>4 DEF TypeOK, EachFilterOnce

LEMMA ConnectionTypes ==
  ASSUME TypeInv, NEW s \in Sockets,
         \/ Connect(s) \/ PeerCloses(s) \/ Disconnect(s)
         \/ \E o \in Organs : Register(s, o) \/ RegisterRefused(s, o)
  PROVE  TypeInv'
<1> USE DEF TypeInv
<1>1. UNCHANGED <<registry, cache, told, manifestVars>>
  BY DEF Connect, PeerCloses, Disconnect, Register, RegisterRefused
<1>2. /\ rs' \in [Sockets -> {"new", "open", "closing", "closed"}]
      /\ clients' \subseteq Sockets
      /\ organ' \in [Sockets -> Organs \cup {NoOrgan}]
  <2>1. CASE Connect(s) \/ PeerCloses(s) \/ Disconnect(s)
    BY <2>1 DEF Connect, PeerCloses, Disconnect, TypeOK
  <2>2. ASSUME NEW o \in Organs, Register(s, o) \/ RegisterRefused(s, o)
        PROVE  /\ rs' \in [Sockets -> {"new", "open", "closing", "closed"}]
               /\ clients' \subseteq Sockets
               /\ organ' \in [Sockets -> Organs \cup {NoOrgan}]
    BY <2>2 DEF Register, RegisterRefused, TypeOK
  <2> QED
    BY <2>1, <2>2
<1> QED
  BY <1>1, <1>2 DEF TypeOK, TaskIsDue, TablesAreFinite, EachFilterOnce,
                    ManifestTypeOK,
                    manifestVars, provisioning, faults

LEMMA RestartTypes ==
  ASSUME TypeInv, Restart
  PROVE  TypeInv'
<1> USE DEF TypeInv
<1>1. /\ restarts' \in 0..MaxFaults
      /\ UNCHANGED <<manifest, mailboxes, changelog, failures, registry, told>>
      /\ known' = <<>> /\ cache' = <<>> /\ task' = InitDatabase
      /\ 0 < MessageTypes
  BY ManifestBounds
     DEF Restart, ManifestRestart, MayFail, TypeOK, ManifestTypeOK
<1>2. <<>> \in Maps
  <2>1. <<>> \in [{} -> BOOLEAN]
    OBVIOUS
  <2> QED
    BY <2>1 DEF Maps
<1>3. task' \in Tasks
  BY <1>1, SeedFacts DEF Tasks
<1>4. TaskIsDue'
  BY <1>1 DEF InitDatabase, Seed, TaskIsDue
<1>5. ManifestTypeOK'
  BY <1>1, <1>2 DEF TypeOK, ManifestTypeOK
<1>6. /\ rs' \in [Sockets -> {"new", "open", "closing", "closed"}]
      /\ clients' \subseteq Sockets
      /\ organ' \in [Sockets -> Organs \cup {NoOrgan}]
  BY DEF Restart, TypeOK
<1> QED
  BY <1>1, <1>3, <1>4, <1>5, <1>6 DEF TypeOK, TablesAreFinite, EachFilterOnce

LEMMA NextTypes == TypeInv /\ [Next]_vars => TypeInv'
<1> SUFFICES ASSUME TypeInv, [Next]_vars
             PROVE  TypeInv'
  OBVIOUS
<1>1. CASE \/ \E s \in Sockets, filter \in Filters :
                Subscribe(s, filter) \/ Unsubscribe(s, filter)
           \/ SubscribeCache \/ UnsubscribeCache
  BY <1>1, SubscriptionTypes
<1>2. ASSUME NEW s \in Sockets,
             \/ Connect(s) \/ PeerCloses(s) \/ Disconnect(s)
             \/ \E o \in Organs : Register(s, o) \/ RegisterRefused(s, o)
      PROVE  TypeInv'
  BY <1>2, ConnectionTypes
<1>3. CASE Provision /\ UNCHANGED <<registry, cache, sockets, told>>
  BY <1>3, ProvisionTypes
<1>4. CASE Start
  BY <1>4, StartTypes
<1>5. CASE Restart
  BY <1>5, RestartTypes
<1>6. CASE UNCHANGED vars
  BY <1>6 DEF vars, sockets, manifestVars, provisioning, faults, TypeInv,
              TypeOK, TaskIsDue, TablesAreFinite, EachFilterOnce, ManifestTypeOK
<1> QED
  BY <1>1, <1>2, <1>3, <1>4, <1>5, <1>6 DEF Next

\* The tables, the cache, the map and the tasks keep their types: the cache is a
\* map of lists, and the changelog is never longer than it should be.
THEOREM TypeCorrect == Spec => []TypeOK
<1>1. TypeInv => TypeOK
  BY DEF TypeInv
<1> QED
  BY <1>1, InitTypes, NextTypes, PTL DEF Spec

LEMMA TypeInvariant == Spec => []TypeInv
BY InitTypes, NextTypes, PTL DEF Spec

-----------------------------------------------------------------------------
(* The manifest in memory and in the table.                                *)

LEMMA FailuresAreNumbers ==
  ASSUME TypeInv
  PROVE  failures \in Nat /\ restarts \in Nat
BY ManifestBounds DEF TypeInv, TypeOK, ManifestTypeOK

\* The steps in which the map or the table changes, or what is still to be done
\* of a provisioning.
ManifestMoves ==
  \/ SeedChangelog \/ SeedOrgan \/ SeedMailbox \/ LoadManifest
  \/ \E o \in Organs, required \in BOOLEAN : AddOrgan(o, required)
  \/ AddMailbox \/ AddMailboxFails \/ Restart

\* No other step takes part in a provisioning or in the start.
LEMMA OtherTasks ==
  ASSUME TypeInv, [Next]_vars, ~ManifestMoves
  PROVE  /\ UNCHANGED <<manifest, changelog, known, faults>>
         /\ mailboxes \subseteq mailboxes'
         /\ \/ UNCHANGED task
            \/ /\ task.kind \in {"idle", "subscribe", "unsubscribe"}
               /\ task'.kind \in {"idle", "subscribe", "unsubscribe"}
<1>1. CASE \/ \E s \in Sockets, filter \in Filters :
                Subscribe(s, filter) \/ Unsubscribe(s, filter)
           \/ SubscribeCache \/ UnsubscribeCache
  BY <1>1 DEF Subscribe, Unsubscribe, SubscribeCache, UnsubscribeCache, Speaks,
              Idle, provisioning, faults
<1>2. CASE \E s \in Sockets :
             \/ Connect(s) \/ PeerCloses(s) \/ Disconnect(s)
             \/ \E o \in Organs : Register(s, o) \/ RegisterRefused(s, o)
  BY <1>2 DEF Connect, PeerCloses, Disconnect, Register, RegisterRefused,
              manifestVars, provisioning, faults
<1>3. CASE \E o \in Organs : RegisterMailbox(o)
  BY <1>3 DEF RegisterMailbox, faults
<1>4. CASE UNCHANGED vars
  BY <1>4 DEF vars, manifestVars, provisioning, faults
<1> QED
  BY <1>1, <1>2, <1>3, <1>4 DEF Next, ManifestMoves, Provision, Start

LEMMA InitManifest == Init => ManifestInv
<1> SUFFICES ASSUME Init PROVE ManifestInv
  OBVIOUS
<1>1. Booting
  BY DEF Init, ManifestInit, InitDatabase, Seed, Booting
<1> QED
  BY <1>1 DEF Init, ManifestInit, ManifestInv

LEMMA NextManifest ==
  ASSUME TypeInv, ManifestInv, [Next]_vars
  PROVE  ManifestInv'
<1> USE DEF ManifestInv
<1>1. /\ IsFiniteSet(DOMAIN manifest) /\ failures \in Nat
      /\ task.kind = "addMailbox" => task.organ \in DOMAIN manifest
  BY FailuresAreNumbers DEF TypeInv, TablesAreFinite, TaskIsDue
<1>2. IsFiniteSet(Hidden) /\ Cardinality(Hidden) \in Nat
  BY <1>1, FS_Subset, FS_CardinalityType DEF Hidden
<1>3. \A hidden \in SUBSET Hidden : Cardinality(hidden) <= Cardinality(Hidden)
  BY <1>2, FS_Subset
<1>4. CASE SeedChangelog \/ SeedMailbox
  BY <1>4 DEF SeedChangelog, SeedMailbox, Booting, Seed, faults
<1>5. CASE SeedOrgan
  <2> DEFINE seed == Seeds[task.next]
  <2>1. task'.kind \in {"seed", "seedMailbox"} /\ UNCHANGED known
    BY <1>5, TaskKinds DEF SeedOrgan, Seed, TypeInv
  <2>2. \/ UNCHANGED manifest
        \/ /\ manifest' = With(manifest, seed.organ, seed.required)
           /\ seed.organ \notin DOMAIN manifest
    BY <1>5 DEF SeedOrgan
  <2>3. \A o \in DOMAIN manifest :
          o \in DOMAIN manifest' /\ manifest'[o] = manifest[o]
    BY <2>2 DEF With
  <2> QED
    BY <2>1, <2>3 DEF Booting
<1>6. CASE LoadManifest
  <2>1. /\ known' = manifest /\ UNCHANGED <<manifest, failures>>
        /\ task'.kind = "idle"
    BY <1>6 DEF LoadManifest, Idle, faults
  <2>2. Hidden' = {}
    BY <2>1 DEF Hidden
  <2> QED
    BY <1>1, <2>1, <2>2, FS_EmptySet
<1>7. ASSUME NEW o \in Organs, NEW required \in BOOLEAN, AddOrgan(o, required)
      PROVE  ManifestInv'
  <2>1. /\ manifest' = With(manifest, o, required) /\ o \notin DOMAIN manifest
        /\ UNCHANGED <<known, failures>> /\ ~Booting
        /\ task.kind # "addMailbox"
        /\ task'.kind = "addMailbox" /\ task'.organ = o
    BY <1>7 DEF AddOrgan, faults, Idle, Booting
  <2>2. /\ DOMAIN manifest' = DOMAIN manifest \cup {o}
        /\ \A p \in DOMAIN manifest : manifest'[p] = manifest[p]
    BY <2>1 DEF With
  <2>3. Hidden' \subseteq Hidden
    BY <2>1, <2>2 DEF Hidden
  <2>4. Cardinality(Hidden') <= failures'
    <3>1. Cardinality(Hidden') \in Nat
      BY <1>2, <2>3, FS_Subset, FS_CardinalityType
    <3> QED
      BY <1>1, <1>2, <1>3, <2>1, <2>3, <3>1
  <2> QED
    BY <2>1, <2>2, <2>4
<1>8. CASE AddMailbox
  <2>1. /\ task.kind = "addMailbox" /\ task'.kind = "idle"
        /\ known' = With(known, task.organ, manifest[task.organ])
        /\ UNCHANGED <<manifest, failures>>
    BY <1>8 DEF AddMailbox, Idle, faults
  <2>2. Hidden' = Hidden
    BY <2>1 DEF Hidden, With
  <2>3. \A o \in DOMAIN known' : o \in DOMAIN manifest /\ known'[o] = manifest[o]
    BY <1>1, <2>1 DEF With
  <2> QED
    BY <2>1, <2>2, <2>3 DEF Booting
<1>9. CASE AddMailboxFails
  <2>1. /\ task.kind = "addMailbox" /\ task'.kind = "idle"
        /\ UNCHANGED <<manifest, known>> /\ failures' = failures + 1
    BY <1>9 DEF AddMailboxFails, Idle, provisioning
  <2>2. Hidden' \subseteq Hidden \cup {task.organ}
    BY <2>1 DEF Hidden
  <2>3. /\ IsFiniteSet(Hidden \cup {task.organ})
        /\ Cardinality(Hidden \cup {task.organ}) \in Nat
        /\ Cardinality(Hidden \cup {task.organ}) <= Cardinality(Hidden) + 1
    BY <1>2, FS_AddElement, FS_CardinalityType
  <2>4. /\ Cardinality(Hidden') \in Nat
        /\ Cardinality(Hidden') <= Cardinality(Hidden \cup {task.organ})
    BY <2>2, <2>3, FS_Subset, FS_CardinalityType
  <2>5. Cardinality(Hidden') <= failures'
    BY <1>1, <1>2, <2>1, <2>3, <2>4 DEF Booting
  <2> QED
    BY <2>1, <2>5
<1>10. CASE Restart
  BY <1>10 DEF Restart, ManifestRestart, InitDatabase, Seed, Booting
<1>11. CASE ~ManifestMoves
  <2>1. /\ UNCHANGED <<manifest, known, failures>> /\ Booting' = Booting
        /\ Hidden' = Hidden
    BY <1>11, OtherTasks DEF faults, Booting, Hidden
  <2> QED
    BY <2>1
<1> QED
  BY <1>4, <1>5, <1>6, <1>7, <1>8, <1>9, <1>10, <1>11 DEF ManifestMoves

LEMMA ManifestInvariant == Spec => [](TypeInv /\ ManifestInv)
BY InitTypes, NextTypes, InitManifest, NextManifest, PTL DEF Spec

\* The map that decides who may register holds what the table holds, after
\* seeding, provisioning and crashes in between, but for one organ for each
\* provisioning that failed (manifest.js:68-75, adapter/sqlite.js's
\* addManifestEntry).
THEOREM MapIsTable == Spec => []KnownMirrorsManifest
<1>1. TypeInv /\ ManifestInv => KnownMirrorsManifest
  BY DEF ManifestInv, KnownMirrorsManifest, Hidden, Booting, Idle
<1> QED
  BY <1>1, ManifestInvariant, PTL

-----------------------------------------------------------------------------
(* Gaps of the tables.                                                     *)

\* Only a fault opens a gap, and no more than one.
LEMMA GapsSteps ==
  ASSUME TypeInv, [Next]_vars
  PROVE  \/ /\ MailboxGaps' \subseteq MailboxGaps
            /\ ChangelogGap' => ChangelogGap
            /\ UNCHANGED <<failures, restarts>>
         \/ /\ AddMailboxFails
            /\ MailboxGaps' \subseteq MailboxGaps \cup {task.organ}
            /\ ChangelogGap' => ChangelogGap
         \/ /\ Restart /\ MailboxGaps' \subseteq MailboxGaps \cup Underway
            /\ Underway = {} \/ (ChangelogGap' => ChangelogGap)
<1>1. CASE SeedChangelog
  BY <1>1, ManifestBounds
     DEF SeedChangelog, MailboxGaps, Underway, ChangelogGap, Seed, faults,
         TypeInv, TypeOK, ManifestTypeOK
<1>2. CASE SeedOrgan
  <2>1. /\ task.kind = "seed"
        /\ UNCHANGED <<mailboxes, changelog, failures, restarts>>
        /\ \/ task'.kind = "seed" /\ UNCHANGED manifest
           \/ /\ manifest' = With(manifest, Seeds[task.next].organ,
                                  Seeds[task.next].required)
              /\ task'.kind = "seedMailbox" /\ task'.next = task.next
    BY <1>2, TaskKinds DEF SeedOrgan, Seed, faults, TypeInv
  <2> QED
    BY <2>1 DEF MailboxGaps, Underway, ChangelogGap, With
<1>3. CASE SeedMailbox
  BY <1>3 DEF SeedMailbox, MailboxGaps, Underway, ChangelogGap, Seed, faults
<1>4. CASE LoadManifest
  BY <1>4 DEF LoadManifest, MailboxGaps, Underway, ChangelogGap, Idle, faults
<1>5. ASSUME NEW o \in Organs, NEW required \in BOOLEAN, AddOrgan(o, required)
      PROVE  /\ MailboxGaps' \subseteq MailboxGaps
             /\ ChangelogGap' => ChangelogGap
             /\ UNCHANGED <<failures, restarts>>
  BY <1>5 DEF AddOrgan, With, MailboxGaps, Underway, ChangelogGap, Idle, faults
<1>6. CASE AddMailbox
  BY <1>6 DEF AddMailbox, MailboxGaps, Underway, ChangelogGap, Idle, faults
<1>7. CASE AddMailboxFails
  BY <1>7 DEF AddMailboxFails, MailboxGaps, Underway, ChangelogGap, Idle,
              provisioning
<1>8. CASE Restart
  BY <1>8 DEF Restart, ManifestRestart, InitDatabase, Seed, MailboxGaps,
              Underway, ChangelogGap
<1>9. CASE ~ManifestMoves
  <2>1. /\ UNCHANGED <<manifest, changelog, failures, restarts>>
        /\ mailboxes \subseteq mailboxes' /\ Underway' = Underway
        /\ task'.kind = "changelog" <=> task.kind = "changelog"
    BY <1>9, OtherTasks DEF faults, Underway
  <2> QED
    BY <2>1 DEF MailboxGaps, ChangelogGap
<1> QED
  BY <1>1, <1>2, <1>3, <1>4, <1>5, <1>6, <1>7, <1>8, <1>9 DEF ManifestMoves

LEMMA NextGaps ==
  ASSUME TypeInv, GapsByFaultOnly, [Next]_vars
  PROVE  GapsByFaultOnly'
<1> DEFINE gap == IF ChangelogGap THEN 1 ELSE 0
<1>1. /\ IsFiniteSet(MailboxGaps) /\ Cardinality(MailboxGaps) \in Nat
      /\ failures \in Nat /\ restarts \in Nat
      /\ Cardinality(MailboxGaps) + gap <= failures + restarts
  BY FailuresAreNumbers, FS_Subset, FS_CardinalityType
     DEF TypeInv, TablesAreFinite, MailboxGaps, GapsByFaultOnly
<1>2. ASSUME MailboxGaps' \subseteq MailboxGaps
      PROVE  /\ Cardinality(MailboxGaps') \in Nat
             /\ Cardinality(MailboxGaps') <= Cardinality(MailboxGaps)
  BY <1>1, <1>2, FS_Subset, FS_CardinalityType
<1>3. ASSUME NEW o, MailboxGaps' \subseteq MailboxGaps \cup {o}
      PROVE  /\ Cardinality(MailboxGaps') \in Nat
             /\ Cardinality(MailboxGaps') <= Cardinality(MailboxGaps) + 1
  <2>1. /\ IsFiniteSet(MailboxGaps \cup {o})
        /\ Cardinality(MailboxGaps \cup {o}) \in Nat
        /\ Cardinality(MailboxGaps \cup {o}) <= Cardinality(MailboxGaps) + 1
    <3>1. /\ IsFiniteSet(MailboxGaps \cup {o})
          /\ \/ Cardinality(MailboxGaps \cup {o}) = Cardinality(MailboxGaps)
             \/ Cardinality(MailboxGaps \cup {o}) = Cardinality(MailboxGaps) + 1
      BY <1>1, FS_AddElement
    <3> QED
      BY <1>1, <3>1
  <2>2. /\ Cardinality(MailboxGaps') \in Nat
        /\ Cardinality(MailboxGaps') <= Cardinality(MailboxGaps \cup {o})
    BY <1>3, <2>1, FS_Subset, FS_CardinalityType
  <2> QED
    BY <1>1, <2>1, <2>2
<1>4. SUFFICES Cardinality(MailboxGaps') + gap' <= failures' + restarts'
  BY DEF GapsByFaultOnly
<1>5. CASE /\ MailboxGaps' \subseteq MailboxGaps
           /\ ChangelogGap' => ChangelogGap
           /\ UNCHANGED <<failures, restarts>>
  <2>1. gap' <= gap /\ gap \in Nat /\ gap' \in Nat
    BY <1>5
  <2> HIDE DEF gap
  <2> QED
    BY <1>1, <1>2, <1>5, <2>1
<1>6. CASE /\ AddMailboxFails
           /\ MailboxGaps' \subseteq MailboxGaps \cup {task.organ}
           /\ ChangelogGap' => ChangelogGap
  <2>1. failures' = failures + 1 /\ restarts' = restarts
    BY <1>6 DEF AddMailboxFails
  <2> QED
    BY <1>1, <1>3, <1>6, <2>1
<1>7. CASE /\ Restart /\ MailboxGaps' \subseteq MailboxGaps \cup Underway
           /\ Underway = {} \/ (ChangelogGap' => ChangelogGap)
  <2>1. failures' = failures /\ restarts' = restarts + 1
    BY <1>7 DEF Restart, ManifestRestart
  <2>2. CASE Underway = {}
    BY <1>1, <1>2, <1>7, <2>1, <2>2
  <2>3. CASE Underway # {}
    <3>1. \E o : Underway = {o}
      BY <2>3 DEF Underway
    <3> QED
      BY <1>1, <1>3, <1>7, <2>1, <2>3, <3>1
  <2> QED
    BY <2>2, <2>3
<1> QED
  BY <1>5, <1>6, <1>7, GapsSteps

\* An organ of the manifest without a mailbox, and an incomplete changelog, are
\* being written or are the work of a fault, each of which leaves at most one
\* gap (db/init.js:215-261, adapter/sqlite.js's addManifestEntry).
THEOREM GapsHaveFaults == Spec => []GapsByFaultOnly
<1>1. Init => GapsByFaultOnly
  <2> SUFFICES ASSUME Init PROVE GapsByFaultOnly
    OBVIOUS
  <2>1. MailboxGaps = {} /\ ~ChangelogGap
    BY ManifestBounds
       DEF Init, ManifestInit, MailboxGaps, ChangelogGap, InitDatabase
  <2>2. failures = 0 /\ restarts = 0
    BY DEF Init, ManifestInit
  <2> QED
    BY <2>1, <2>2, FS_EmptySet DEF GapsByFaultOnly
<1>2. TypeInv /\ GapsByFaultOnly /\ [Next]_vars => GapsByFaultOnly'
  BY NextGaps
<1> QED
  BY <1>1, <1>2, TypeInvariant, PTL DEF Spec

-----------------------------------------------------------------------------
(* Health.                                                                 *)

LEMMA NextNames ==
  ASSUME TypeInv, NamesInv, [Next]_vars
  PROVE  NamesInv'
<1>1. mailboxes \subseteq mailboxes'
  <2>1. CASE ManifestMoves
    BY <2>1 DEF ManifestMoves, SeedChangelog, SeedOrgan, SeedMailbox,
                LoadManifest, AddOrgan, AddMailbox, AddMailboxFails, Restart,
                ManifestRestart, provisioning
  <2> QED
    BY <2>1, OtherTasks
<1>2. \A s \in Sockets : \/ organ'[s] \in {organ[s], NoOrgan}
                         \/ organ'[s] \in mailboxes
  <2>1. organ \in [Sockets -> Organs \cup {NoOrgan}]
    BY DEF TypeInv, TypeOK
  <2>2. CASE \E s \in Sockets : Disconnect(s)
    BY <2>1, <2>2 DEF Disconnect
  <2>3. CASE \E s \in Sockets, o \in Organs : Register(s, o)
    BY <2>1, <2>3 DEF Register, Admitted
  <2>4. CASE Restart
    BY <2>4 DEF Restart
  <2>5. UNCHANGED organ \/ Restart
        \/ (\E s \in Sockets : Disconnect(s))
        \/ \E s \in Sockets, o \in Organs : Register(s, o)
    BY DEF Next, vars, sockets, Subscribe, SubscribeCache, Unsubscribe,
           UnsubscribeCache, Connect, RegisterRefused, PeerCloses, Start
  <2> QED
    BY <2>2, <2>3, <2>4, <2>5
<1> QED
  BY <1>1, <1>2 DEF NamesInv

\* When the health route answers "ok", every organ the table marks as required
\* is connected and has its mailbox, but for one for each provisioning that
\* failed (routes/health.js against manifest.js and ws/handler.js).
THEOREM OkMeansComplete == Spec => []HealthyMeansComplete
<1>1. Init => NamesInv
  BY DEF Init, NamesInv
<1>2. TypeInv /\ NamesInv /\ [Next]_vars => NamesInv'
  BY NextNames
<1>3. ASSUME TypeInv, ManifestInv, NamesInv
      PROVE  HealthyMeansComplete
  <2> DEFINE incomplete == {o \in DOMAIN manifest :
               manifest[o] /\ ~(IsOrganConnected(o) /\ o \in mailboxes)}
  <2> SUFFICES ASSUME task = Idle, MissingRequired = {}
               PROVE  Cardinality(incomplete) <= failures
    BY DEF HealthyMeansComplete, HealthStatus
  <2>1. Cardinality(Hidden) <= failures /\ IsFiniteSet(Hidden)
    BY <1>3, FS_Subset
       DEF ManifestInv, Booting, Idle, TypeInv, TablesAreFinite, Hidden
  <2>2. ASSUME NEW o \in incomplete, o \in DOMAIN known
        PROVE  FALSE
    <3>1. known[o] = manifest[o]
      BY <1>3, <2>2 DEF ManifestInv
    <3>2. IsOrganConnected(o)
      BY <2>2, <3>1 DEF MissingRequired
    <3>3. PICK s \in clients : organ[s] = o
      BY <3>2 DEF IsOrganConnected, Named
    <3>4. s \in Sockets /\ o \in Organs
      BY <1>3, <2>2, MapFacts DEF TypeInv, TypeOK, ManifestTypeOK
    <3>5. o \in mailboxes
      BY <1>3, <3>3, <3>4, OrgansAssumption DEF NamesInv
    <3> QED
      BY <2>2, <3>2, <3>5
  <2>3. incomplete \subseteq Hidden
    BY <2>2 DEF Hidden, Idle
  <2>4. /\ Cardinality(incomplete) \in Nat /\ Cardinality(Hidden) \in Nat
        /\ Cardinality(incomplete) <= Cardinality(Hidden)
    BY <2>1, <2>3, FS_Subset, FS_CardinalityType
  <2> QED
    BY <1>3, <2>1, <2>4, FailuresAreNumbers
<1> QED
  BY <1>1, <1>2, <1>3, ManifestInvariant, PTL DEF Spec

-----------------------------------------------------------------------------
(* The cache of subscriptions, and what is broadcast from it.              *)

InCache(o, filter) == o \in DOMAIN cache /\ filter \in ToSet(cache[o])

\* The cache and the registry are written by these steps only.
LEMMA CacheSteps ==
  ASSUME TypeInv, [Next]_vars
  PROVE  \/ \E s \in Sockets, filter \in Filters :
              Subscribe(s, filter) \/ Unsubscribe(s, filter)
         \/ SubscribeCache \/ UnsubscribeCache \/ Start \/ Restart
         \/ /\ UNCHANGED <<registry, cache, told>>
            /\ Booting' <=> Booting
            /\ \/ UNCHANGED task
               \/ /\ task.kind \notin {"subscribe", "unsubscribe"}
                  /\ task'.kind \notin {"subscribe", "unsubscribe"}
<1>1. CASE Provision /\ UNCHANGED <<registry, cache, sockets, told>>
  <2>1. CASE SeedChangelog \/ SeedOrgan \/ SeedMailbox
    <3>1. /\ task.kind \in {"changelog", "seed", "seedMailbox"}
          /\ task'.kind \in {"changelog", "seed", "seedMailbox"}
      BY <2>1, TaskKinds
         DEF SeedChangelog, SeedOrgan, SeedMailbox, Seed, TypeInv
    <3> QED
      BY <1>1, <3>1 DEF Booting
  <2>2. CASE \/ AddMailbox \/ AddMailboxFails
             \/ \E o \in Organs, required \in BOOLEAN : AddOrgan(o, required)
    <3>1. /\ task.kind \in {"idle", "addMailbox"}
          /\ task'.kind \in {"idle", "addMailbox"}
      BY <2>2 DEF AddMailbox, AddMailboxFails, AddOrgan, Idle
    <3> QED
      BY <1>1, <3>1 DEF Booting
  <2>3. CASE \E o \in Organs : RegisterMailbox(o)
    BY <1>1, <2>3 DEF RegisterMailbox, Booting
  <2> QED
    BY <1>1, <2>1, <2>2, <2>3 DEF Provision
<1>2. CASE \E s \in Sockets :
             \/ Connect(s) \/ PeerCloses(s) \/ Disconnect(s)
             \/ \E o \in Organs : Register(s, o) \/ RegisterRefused(s, o)
  BY <1>2 DEF Connect, PeerCloses, Disconnect, Register, RegisterRefused,
              manifestVars, Booting
<1>3. CASE UNCHANGED vars
  BY <1>3 DEF vars, manifestVars, Booting
<1> QED
  BY <1>1, <1>2, <1>3 DEF Next

LEMMA InitCache == Init => CacheInv
<1> SUFFICES ASSUME Init PROVE CacheInv
  OBVIOUS
<1>1. Booting
  BY DEF Init, ManifestInit, InitDatabase, Seed, Booting
<1>2. task.kind \notin {"subscribe", "unsubscribe"}
  BY <1>1 DEF Booting
<1> QED
  BY <1>1, <1>2 DEF Init, CacheInv, EntriesAgree, TaskWrote

LEMMA LoadMirrors ==
  ASSUME TypeInv, Start, NEW o \in Organs, NEW filter \in Filters
  PROVE  <<o, filter>> \in registry <=> InCache(o, filter)'
<1> DEFINE some == {f \in Filters : <<o, f>> \in registry}
<1>1. cache' = LoadSubscriptionCache
  BY DEF Start
<1>2. ToSet(SetToSeq(some)) = some
  BY FiltersAreFinite, ListOfSet DEF TypeInv, TablesAreFinite
<1>3. o \in DOMAIN cache' => cache'[o] = SetToSeq(some)
  BY <1>1 DEF LoadSubscriptionCache
<1>4. <<o, filter>> \in registry => o \in DOMAIN cache'
  BY <1>1 DEF LoadSubscriptionCache
<1> QED
  BY <1>2, <1>3, <1>4 DEF InCache

\* The second write brings the cache up to the first.
LEMMA CacheWritten ==
  ASSUME TypeInv, SubscribeCache \/ UnsubscribeCache,
         NEW o \in Organs, NEW filter \in Filters
  PROVE  InCache(o, filter)' <=>
           IF o = task.organ /\ filter = task.filter THEN SubscribeCache
           ELSE InCache(o, filter)
<1>1. /\ task.organ \in Organs /\ task.filter \in Filters
      /\ ~(SubscribeCache /\ UnsubscribeCache)
  BY TaskKinds DEF TypeInv, SubscribeCache, UnsubscribeCache
<1>2. /\ Cached(task.organ) \in Seq(Filters) /\ IsInjective(Cached(task.organ))
      /\ \A f : f \in ToSet(Cached(task.organ)) <=> InCache(task.organ, f)
  BY DEF Cached, TypeInv, TypeOK, EachFilterOnce, IsInjective, InCache, ToSet
<1>3. ASSUME NEW list, cache' = With(cache, task.organ, list)
      PROVE  InCache(o, filter)' <=> IF o = task.organ THEN filter \in ToSet(list)
                                     ELSE InCache(o, filter)
  BY <1>3 DEF With, InCache
<1>4. CASE SubscribeCache
  <2> DEFINE list == IF Contains(Cached(task.organ), task.filter)
                     THEN Cached(task.organ)
                     ELSE Append(Cached(task.organ), task.filter)
  <2>1. cache' = With(cache, task.organ, list)
    BY <1>4 DEF SubscribeCache, WithCached
  <2>2. ToSet(list) = ToSet(Cached(task.organ)) \cup {task.filter}
    <3>1. CASE Contains(Cached(task.organ), task.filter)
      BY <1>2, <3>1, ContainsIsMember
    <3>2. CASE ~Contains(Cached(task.organ), task.filter)
      BY <1>1, <1>2, <3>2, SetOfSeq
    <3> QED
      BY <3>1, <3>2
  <2> HIDE DEF list
  <2> QED
    BY <1>2, <1>3, <1>4, <2>1, <2>2
<1>5. CASE UnsubscribeCache
  <2> DEFINE left == RemoveFirst(Cached(task.organ), task.filter)
  <2>1. ToSet(left) = ToSet(Cached(task.organ)) \ {task.filter}
    BY <1>2, ListWithout
  <2>2. ~SubscribeCache
    BY <1>1, <1>5
  <2>3. CASE left = <<>>
    <3>1. cache' = [p \in DOMAIN cache \ {task.organ} |-> cache[p]]
      BY <1>5, <2>3 DEF UnsubscribeCache, Restrict
    <3>2. ToSet(left) = {}
      BY <2>3 DEF ToSet
    <3>3. InCache(o, filter)' <=> o # task.organ /\ InCache(o, filter)
      BY <3>1 DEF InCache
    <3> QED
      BY <1>2, <2>1, <2>2, <3>2, <3>3
  <2>4. CASE left # <<>>
    <3>1. cache' = With(cache, task.organ, left)
      BY <1>5, <2>4 DEF UnsubscribeCache, WithCached
    <3> HIDE DEF left
    <3> QED
      BY <1>2, <1>3, <2>1, <2>2, <3>1
  <2> QED
    BY <2>3, <2>4
<1> QED
  BY <1>4, <1>5

LEMMA NextCache ==
  ASSUME TypeInv, TypeInv', CacheInv, [Next]_vars
  PROVE  CacheInv'
<1> USE DEF CacheInv
<1>0. EntriesAgree <=> (~Booting => \A o \in Organs, filter \in Filters :
        Lagging(o, filter) \/ (<<o, filter>> \in registry <=> InCache(o, filter)))
  BY DEF EntriesAgree, InCache
<1>1. EntriesAgree' <=> (~Booting' => \A o \in Organs, filter \in Filters :
        \/ Lagging(o, filter)'
        \/ <<o, filter>> \in registry' <=> InCache(o, filter)')
  BY DEF EntriesAgree, InCache
<1>2. ASSUME NEW s \in Sockets, NEW filter \in Filters,
             Subscribe(s, filter) \/ Unsubscribe(s, filter)
      PROVE  CacheInv'
  <2>1. /\ task = Idle /\ UNCHANGED cache
        /\ task'.kind \in {"subscribe", "unsubscribe"}
        /\ task'.organ = organ[s] /\ task'.filter = filter
        /\ ~Booting
    BY <1>2 DEF Subscribe, Unsubscribe, Speaks, Booting, Idle
  <2>2. registry' \in {registry \cup {<<organ[s], filter>>},
                       registry \ {<<organ[s], filter>>}}
    BY <1>2 DEF Subscribe, Unsubscribe
  <2>3. told' \subseteq registry' /\ TaskWrote'
    BY <1>2 DEF Subscribe, Unsubscribe, TaskWrote
  <2>4. ASSUME NEW o \in Organs, NEW f \in Filters, ~Lagging(o, f)'
        PROVE  <<o, f>> \in registry' <=> InCache(o, f)'
    <3>1. <<o, f>> # <<organ[s], filter>>
      BY <2>1, <2>4 DEF Lagging
    <3>2. ~Lagging(o, f) /\ InCache(o, f)' = InCache(o, f)
      BY <2>1 DEF Lagging, Idle, InCache
    <3> QED
      BY <1>0, <2>1, <2>2, <3>1, <3>2
  <2> QED
    BY <1>1, <2>3, <2>4
<1>3. CASE SubscribeCache \/ UnsubscribeCache
  <2>1. /\ UNCHANGED registry /\ task' = Idle
        /\ task.organ \in Organs /\ task.filter \in Filters
        /\ SubscribeCache <=> task.kind = "subscribe"
        /\ task.kind \in {"subscribe", "unsubscribe"} /\ ~Booting
    BY <1>3, TaskKinds DEF SubscribeCache, UnsubscribeCache, Booting, TypeInv
  <2>2. told' \subseteq registry' /\ TaskWrote'
    BY <1>3, <2>1 DEF SubscribeCache, UnsubscribeCache, TaskWrote, Idle
  <2>3. ASSUME NEW o \in Organs, NEW filter \in Filters
        PROVE  <<o, filter>> \in registry' <=> InCache(o, filter)'
    <3>1. CASE o = task.organ /\ filter = task.filter
      BY <1>3, <2>1, <3>1, CacheWritten DEF TaskWrote
    <3>2. CASE ~(o = task.organ /\ filter = task.filter)
      <4>1. ~Lagging(o, filter)
        BY <3>2 DEF Lagging
      <4>2. InCache(o, filter)' <=> InCache(o, filter)
        BY <1>3, <3>2, CacheWritten
      <4> QED
        BY <1>0, <2>1, <4>1, <4>2
    <3> QED
      BY <3>1, <3>2
  <2> QED
    BY <1>1, <2>2, <2>3
<1>4. CASE Start
  <2>1. UNCHANGED <<registry, told>> /\ task' = Idle
    BY <1>4 DEF Start, LoadManifest
  <2>2. EntriesAgree'
    BY <1>1, <1>4, <2>1, LoadMirrors
  <2> QED
    BY <2>1, <2>2 DEF TaskWrote, Idle
<1>5. CASE Restart
  <2>1. UNCHANGED <<registry, told>> /\ Booting'
    BY <1>5 DEF Restart, ManifestRestart, InitDatabase, Seed, Booting
  <2> QED
    BY <1>1, <2>1 DEF TaskWrote, Booting
<1>6. CASE /\ UNCHANGED <<registry, cache, told>>
           /\ Booting' <=> Booting
           /\ \/ UNCHANGED task
              \/ /\ task.kind \notin {"subscribe", "unsubscribe"}
                 /\ task'.kind \notin {"subscribe", "unsubscribe"}
  BY <1>6 DEF EntriesAgree, TaskWrote, Lagging
<1> QED
  BY <1>2, <1>3, <1>4, <1>5, <1>6, CacheSteps

LEMMA CacheInvariant == Spec => [](TypeInv /\ CacheInv)
<1>1. TypeInv /\ CacheInv /\ TypeInv' /\ [Next]_vars => CacheInv'
  BY NextCache
<1> QED
  BY <1>1, InitCache, TypeInvariant, PTL DEF Spec

\* Whenever an event is over, the cache holds what the registry holds, each
\* filter once (ws/handler.js:532-600): no crash between the two writes, and no
\* socket that changes its name, sets them apart.
THEOREM CacheIsRegistry == Spec => []CacheMirrorsRegistry
<1>1. ASSUME TypeInv, CacheInv
      PROVE  CacheMirrorsRegistry
  <2> SUFFICES ASSUME task = Idle
               PROVE  registry = UNION {{o} \X ToSet(cache[o]) : o \in DOMAIN cache}
    BY <1>1 DEF CacheMirrorsRegistry, TypeInv, EachFilterOnce
  <2>1. \A o \in Organs, filter \in Filters :
          <<o, filter>> \in registry <=> InCache(o, filter)
    BY <1>1 DEF CacheInv, EntriesAgree, InCache, Lagging, Booting, Idle
  <2>2. registry \subseteq Entries
    BY <1>1 DEF TypeInv, TypeOK
  <2>3. \A o \in DOMAIN cache : /\ o \in Organs
                                /\ ToSet(cache[o]) \subseteq Filters
    BY <1>1 DEF TypeInv, TypeOK, ToSet
  <2>4. \A entry \in registry :
          \E o \in DOMAIN cache : entry \in {o} \X ToSet(cache[o])
    BY <2>1, <2>2 DEF Entries, InCache
  <2>5. \A o \in DOMAIN cache : {o} \X ToSet(cache[o]) \subseteq registry
    BY <2>1, <2>3 DEF InCache
  <2> QED
    BY <2>4, <2>5
<1> QED
  BY <1>1, CacheInvariant, PTL

\* A filter matches when each of its pairs is one of the envelope or of the
\* payload (routing/router.js's matchesFilter).
LEMMA MatchIsInclusion ==
  ASSUME NEW filter \in Filters, NEW envelope
  PROVE  MatchesFilter(envelope, filter) <=>
           ToSet(filter) \subseteq
             Pairs(envelope.fields) \cup Pairs(envelope.payload)
<1>1. ASSUME NEW fields, NEW i \in DOMAIN filter
      PROVE  Has(fields, filter[i]) <=> filter[i] \in Pairs(fields)
  <2>1. filter[i] = [key |-> filter[i].key, value |-> filter[i].value]
    BY FiltersAssumption
  <2>2. Has(fields, filter[i]) => filter[i] \in Pairs(fields)
    BY <2>1 DEF Has, Pairs
  <2>3. ASSUME filter[i] \in Pairs(fields)
        PROVE  Has(fields, filter[i])
    <3>1. PICK k \in DOMAIN fields : filter[i] = [key |-> k, value |-> fields[k]]
      BY <2>3 DEF Pairs
    <3> QED
      BY <3>1 DEF Has
  <2> QED
    BY <2>2, <2>3
<1> QED
  BY <1>1 DEF MatchesFilter, ToSet

\* A broadcast reaches the organs that have an open connection and a
\* subscription they were told of, and no organ without a subscription in the
\* registry (routing/router.js:146-175, ws/handler.js:563).
THEOREM SubscribersAreReached == Spec => []BroadcastReachesSubscribers
<1>1. ASSUME TypeInv, CacheInv
      PROVE  BroadcastReachesSubscribers
  <2> SUFFICES ASSUME task = Idle, NEW envelope \in Envelopes
               PROVE  RouteBroadcast(envelope) =
                        Reachable \cap Wanted(registry, envelope)
    BY <1>1 DEF BroadcastReachesSubscribers, CacheInv, Wanted
  <2>1. \A o \in Organs, filter \in Filters :
          <<o, filter>> \in registry <=> InCache(o, filter)
    BY <1>1 DEF CacheInv, EntriesAgree, InCache, Lagging, Booting, Idle
  <2>2. \A o \in DOMAIN cache : /\ o \in Organs /\ cache[o] \in Seq(Filters)
                                /\ ToSet(cache[o]) \subseteq Filters
    BY <1>1 DEF TypeInv, TypeOK, ToSet
  <2>3. \A o \in DOMAIN cache :
          (\E i \in DOMAIN cache[o] : MatchesFilter(envelope, cache[o][i]))
            <=> \E filter \in ToSet(cache[o]) : MatchesFilter(envelope, filter)
    BY DEF ToSet
  <2>4. ASSUME NEW o \in Organs
        PROVE  (/\ o \in DOMAIN cache
                /\ \E filter \in ToSet(cache[o]) : MatchesFilter(envelope, filter))
                 <=> o \in Wanted(registry, envelope)
    BY <2>1, <2>2, MatchIsInclusion DEF Wanted, InCache
  <2>5. \A o : OpenClients(o) # {} => IsOrganConnected(o)
    BY DEF OpenClients, IsOrganConnected
  <2> QED
    BY <2>2, <2>3, <2>4, <2>5 DEF RouteBroadcast, Subscribers, Reachable, Wanted
<1> QED
  BY <1>1, CacheInvariant, PTL
=============================================================================
