---------------------------- MODULE Subscriptions ----------------------------
(***************************************************************************)
(* Topic subscriptions and broadcast: handleSubscribe, handleUnsubscribe   *)
(* and loadSubscriptionCache of ws/handler.js, matchesFilter and           *)
(* routeBroadcast of routing/router.js.                                    *)
(*                                                                         *)
(* A subscription is kept twice, in the registry table and in a cache in   *)
(* memory.  Broadcasts read the cache.  The two are written one after the  *)
(* other and the process may crash in between; the cache is loaded from    *)
(* the registry when the process starts.                                   *)
(*                                                                         *)
(* The module is composed with Manifest, which decides who may register:   *)
(* both run on the main thread, share its task, and crash together.        *)
(***************************************************************************)
EXTENDS Manifest, SequencesExt, Functions

CONSTANTS
  Sockets,      \* WebSocket objects, each for one connection
  NoOrgan,
  Filters,      \* filters: sequences of [key, value], in the order of the JSON
  Envelopes     \* OTMs: [fields, payload], functions from keys to values

ASSUME OrgansAssumption == NoOrgan \notin Organs
ASSUME FiltersAssumption ==
  \A filter \in Filters : \A i \in DOMAIN filter :
    filter[i] = [key |-> filter[i].key, value |-> filter[i].value]

VARIABLES
  registry,   \* table subscription_registry: pairs of an organ and a filter
  cache,      \* subscriptionCache: a Map from organs to lists of filters
  rs,         \* readyState; "new" before the connection
  clients,    \* keys of the client map
  organ,      \* organName of the socket's client entry
  \* what has happened, for the properties only
  told        \* subscriptions that were confirmed and not given up since

sockets == <<rs, clients, organ>>
vars == <<registry, cache, sockets, told, manifestVars>>

Entries == Organs \X Filters
Tasks == {Idle} \cup BootTasks \cup ProvisioningTasks \cup
  [kind : {"subscribe", "unsubscribe"}, organ : Organs, filter : Filters]

TypeOK ==
  /\ registry \subseteq Entries
  /\ DOMAIN cache \subseteq Organs
  /\ \A o \in DOMAIN cache : cache[o] \in Seq(Filters)
  /\ rs \in [Sockets -> {"new", "open", "closing", "closed"}]
  /\ clients \subseteq Sockets
  /\ organ \in [Sockets -> Organs \cup {NoOrgan}]
  /\ task \in Tasks
  /\ told \subseteq Entries
  /\ ManifestTypeOK

Init ==
  /\ registry = {} /\ cache = <<>>
  /\ rs = [s \in Sockets |-> "new"]
  /\ clients = {} /\ organ = [s \in Sockets |-> NoOrgan]
  /\ told = {}
  /\ ManifestInit

-----------------------------------------------------------------------------
(* Matching and routing.                                                   *)

\* A field is looked up in the envelope, and then in the payload.
Has(fields, f) == f.key \in DOMAIN fields /\ fields[f.key] = f.value

\* Mutant: a field of the envelope hides a field of the payload.
MatchesFilterHides(envelope, filter) ==
  \A i \in DOMAIN filter :
    IF filter[i].key \in DOMAIN envelope.fields
    THEN Has(envelope.fields, filter[i]) ELSE Has(envelope.payload, filter[i])

MatchesFilter(envelope, filter) ==
  \A i \in DOMAIN filter :
    Has(envelope.fields, filter[i]) \/ Has(envelope.payload, filter[i])

Named(o) == {s \in clients : organ[s] = o}
IsOrganConnected(o) == Named(o) # {}
OpenClients(o) == {s \in Named(o) : rs[s] = "open"}

\* An organ is one key of the Map: it is met once, and any of its filters will
\* do.
Subscribers(envelope) ==
  {o \in DOMAIN cache :
     /\ IsOrganConnected(o)
     /\ \E i \in DOMAIN cache[o] : MatchesFilter(envelope, cache[o][i])}

\* delivered_to: pushToOrgan succeeds where a client of that name has an open
\* socket.  A broadcast reads the state of the spine and writes none of it.
RouteBroadcast(envelope) ==
  {o \in Subscribers(envelope) : OpenClients(o) # {}}

-----------------------------------------------------------------------------
(* Subscribe and unsubscribe.                                              *)

\* Mutant: a socket may subscribe before it has registered.
SpeaksAnonymously(s) ==
  task = Idle /\ rs[s] \in {"open", "closing"} /\ s \in clients

\* A message is read from a socket that is open or closing.  Only a socket that
\* is a client and has registered may subscribe.
Speaks(s) ==
  /\ task = Idle /\ rs[s] \in {"open", "closing"}
  /\ s \in clients /\ organ[s] # NoOrgan

\* INSERT OR REPLACE, and later the cache.
Subscribe(s, filter) ==
  /\ Speaks(s)
  /\ registry' = registry \cup {<<organ[s], filter>>}
  /\ task' = [kind |-> "subscribe", organ |-> organ[s], filter |-> filter]
  /\ UNCHANGED <<cache, sockets, told, provisioning, faults>>

Cached(o) == IF o \in DOMAIN cache THEN cache[o] ELSE <<>>
WithCached(o, filters) == With(cache, o, filters)

\* Mutant: a filter that is cached already is added again.
SubscribeCacheTwice ==
  /\ task.kind = "subscribe"
  /\ cache' = WithCached(task.organ, Append(Cached(task.organ), task.filter))
  /\ told' = told \cup {<<task.organ, task.filter>>}
  /\ task' = Idle
  /\ UNCHANGED <<registry, sockets, provisioning, faults>>

SubscribeCache ==
  /\ task.kind = "subscribe"
  /\ cache' = WithCached(task.organ,
                IF Contains(Cached(task.organ), task.filter)
                THEN Cached(task.organ)
                ELSE Append(Cached(task.organ), task.filter))
  /\ told' = told \cup {<<task.organ, task.filter>>}
  /\ task' = Idle
  /\ UNCHANGED <<registry, sockets, provisioning, faults>>

Unsubscribe(s, filter) ==
  /\ Speaks(s)
  /\ registry' = registry \ {<<organ[s], filter>>}
  /\ told' = told \ {<<organ[s], filter>>}
  /\ task' = [kind |-> "unsubscribe", organ |-> organ[s], filter |-> filter]
  /\ UNCHANGED <<cache, sockets, provisioning, faults>>

\* The list of an organ that has no filter left is dropped.
UnsubscribeCache ==
  /\ task.kind = "unsubscribe"
  /\ LET left == RemoveFirst(Cached(task.organ), task.filter)
     IN cache' = IF left = <<>>
                 THEN Restrict(cache, DOMAIN cache \ {task.organ})
                 ELSE WithCached(task.organ, left)
  /\ task' = Idle
  /\ UNCHANGED <<registry, sockets, told, provisioning, faults>>

-----------------------------------------------------------------------------
(* Connections, as far as they decide whom a broadcast reaches.            *)

Connect(s) ==
  /\ task = Idle /\ rs[s] = "new"
  /\ rs' = [rs EXCEPT ![s] = "open"]
  /\ clients' = clients \cup {s}
  /\ UNCHANGED <<registry, cache, organ, told, manifestVars>>

\* The socket that held the name is replaced: it leaves the map and is closed.
Replaced(s, o) == Named(o) \ {s}

\* Mutant: the manifest alone decides.
AdmittedByManifest(o) == o \in DOMAIN known

\* The manifest must know the organ, and it must have a mailbox.
Admitted(o) == o \in DOMAIN known /\ o \in mailboxes

Register(s, o) ==
  /\ task = Idle /\ rs[s] \in {"open", "closing"}
  /\ Admitted(o)
  /\ rs' = [t \in Sockets |-> IF t \in Replaced(s, o) THEN "closing" ELSE rs[t]]
  /\ clients' = clients \ Replaced(s, o)
  /\ organ' = [t \in Sockets |-> IF t = s /\ s \in clients THEN o
                                 ELSE IF t \in Replaced(s, o) THEN NoOrgan
                                 ELSE organ[t]]
  /\ UNCHANGED <<registry, cache, told, manifestVars>>

\* The socket is closed with 4003 or 4001; it keeps the name it may have had.
RegisterRefused(s, o) ==
  /\ task = Idle /\ rs[s] = "open"
  /\ ~Admitted(o)
  /\ rs' = [rs EXCEPT ![s] = "closing"]
  /\ UNCHANGED <<registry, cache, clients, organ, told, manifestVars>>

PeerCloses(s) ==
  /\ task = Idle /\ rs[s] = "open"
  /\ rs' = [rs EXCEPT ![s] = "closing"]
  /\ UNCHANGED <<registry, cache, clients, organ, told, manifestVars>>

Disconnect(s) ==
  /\ task = Idle /\ rs[s] \in {"open", "closing"}
  /\ rs' = [rs EXCEPT ![s] = "closed"]
  /\ clients' = clients \ {s}
  /\ organ' = [organ EXCEPT ![s] = NoOrgan]
  /\ UNCHANGED <<registry, cache, told, manifestVars>>

\* The cache of a new process is loaded from the registry, and before it the
\* manifest from its table.
LoadSubscriptionCache ==
  [o \in {entry[1] : entry \in registry} |->
     SetToSeq({filter \in Filters : <<o, filter>> \in registry})]

Start ==
  /\ LoadManifest
  /\ cache' = LoadSubscriptionCache
  /\ UNCHANGED <<registry, sockets, told>>

Restart ==
  /\ ManifestRestart
  /\ cache' = <<>>
  /\ rs' = [s \in Sockets |-> IF rs[s] = "new" THEN "new" ELSE "closed"]
  /\ clients' = {} /\ organ' = [s \in Sockets |-> NoOrgan]
  /\ UNCHANGED <<registry, told>>

Next ==
  \/ \E s \in Sockets, filter \in Filters : Subscribe(s, filter)
  \/ SubscribeCache
  \/ \E s \in Sockets, filter \in Filters : Unsubscribe(s, filter)
  \/ UnsubscribeCache
  \/ \E s \in Sockets : Connect(s)
  \/ \E s \in Sockets, o \in Organs : Register(s, o)
  \/ \E s \in Sockets, o \in Organs : RegisterRefused(s, o)
  \/ \E s \in Sockets : PeerCloses(s)
  \/ \E s \in Sockets : Disconnect(s)
  \/ Provision /\ UNCHANGED <<registry, cache, sockets, told>>
  \/ Start
  \/ Restart

Spec == Init /\ [][Next]_vars

-----------------------------------------------------------------------------
(* Properties.                                                             *)

\* Whenever an event is over, the cache holds what the registry holds: the same
\* organs, the same filters, each filter once.  Neither a crash between the two
\* writes nor a socket that changes its name or is replaced sets them apart.
CacheMirrorsRegistry ==
  task = Idle =>
    /\ \A o \in DOMAIN cache : IsInjective(cache[o]) /\ cache[o] # <<>>
    /\ registry = UNION {{o} \X ToSet(cache[o]) : o \in DOMAIN cache}

\* A broadcast reaches the organs that have an open connection and a
\* subscription they were told of ("persistent: true", handler.js:563), after
\* reconnections and restarts too, and no organ without a subscription in the
\* registry.  A filter matches when each of its pairs is a pair of the envelope
\* or of the payload.
Pairs(fields) == {[key |-> k, value |-> fields[k]] : k \in DOMAIN fields}
Wanted(entries, envelope) ==
  {o \in Organs : \E filter \in Filters :
     /\ <<o, filter>> \in entries
     /\ ToSet(filter) \subseteq
          Pairs(envelope.fields) \cup Pairs(envelope.payload)}
Reachable == {o \in Organs : OpenClients(o) # {}}
BroadcastReachesSubscribers ==
  task = Idle => \A envelope \in Envelopes :
    /\ Reachable \cap Wanted(told, envelope) \subseteq RouteBroadcast(envelope)
    /\ RouteBroadcast(envelope) = Reachable \cap Wanted(registry, envelope)

\* GET /health: "ok" if no required organ of the map is missing.
MissingRequired == {o \in DOMAIN known : known[o] /\ ~IsOrganConnected(o)}
HealthStatus == IF MissingRequired = {} THEN "ok" ELSE "degraded"

\* When the health route says "ok", every organ the table marks as required is
\* connected and has the mailbox its messages are stored in: no organ that a
\* crash left half provisioned, and none that was added since the map was
\* loaded, is overlooked, but for one for each provisioning that failed.
HealthyMeansComplete ==
  task = Idle /\ HealthStatus = "ok" =>
    Cardinality({o \in DOMAIN manifest :
                   manifest[o] /\ ~(IsOrganConnected(o) /\ o \in mailboxes)})
      <= failures
=============================================================================
