------------------------------- MODULE Monitor -------------------------------
(***************************************************************************)
(* pipewire/examples/pw-mon.rs: a program that binds the objects of a      *)
(* server as they appear, keeps the proxies and their listeners in maps,   *)
(* and drops them when the server says that they are gone.  Messages take  *)
(* their time, so a global may be gone when it is bound.  Callbacks run in *)
(* one thread, one at a time, and are single steps.                        *)
(***************************************************************************)
EXTENDS Integers, Sequences, Functions

CONSTANTS
  Globals,   \* objects that come to exist on the server, once each
  TypeOf,    \* the ObjectType of each
  Ids        \* ids of the client's proxies; used again when they are free

ASSUME MonitorAssumption == DOMAIN TypeOf = Globals /\ Ids # {}

VARIABLES
  globals,     \* globals that exist
  gone,        \* globals that existed
  resources,   \* the server's resource for each id that was bound
  toClient,    \* events on their way
  toServer,    \* calls on their way
  made,        \* how many proxies were made
  proxies,     \* the library's proxies: at each id in use, which one it is
  proxies_t,   \* the program's maps: the proxy kept for an id ...
  listeners,   \* ... and the listeners, with the proxy each is on
  looping      \* MainLoop::run has not returned

server == <<globals, gone, resources, toClient>>
program == <<made, proxies, proxies_t, listeners, looping>>
monitorVars == <<server, toServer, program>>

Empty == <<>>   \* a map without entries
With(map, key, value) ==
  [k \in DOMAIN map \cup {key} |-> IF k = key THEN value ELSE map[k]]
Without(map, key) == Restrict(map, DOMAIN map \ {key})

MonitorInit == /\ globals = {} /\ gone = {} /\ resources = Empty
               /\ toClient = <<>> /\ toServer = <<>>
               /\ made = 0 /\ proxies = Empty
               /\ proxies_t = Empty /\ listeners = Empty
               /\ looping = TRUE

------------------------------------------------------------------------------
(* The server *)

Appear(g) ==
  /\ g \notin globals \cup gone
  /\ globals' = globals \cup {g}
  /\ toClient' = Append(toClient, [event |-> "global", global |-> g])
  /\ UNCHANGED <<gone, resources, toServer, program>>

Removed(id) == [event |-> "removed", id |-> id]

\* Who has bound it is told before everyone else.
Vanish(g) ==
  /\ g \in globals
  /\ globals' = globals \ {g} /\ gone' = gone \cup {g}
  /\ \E ids \in [1..(IF g \in Range(resources) THEN 1 ELSE 0) -> DOMAIN resources] :
       /\ \A i \in DOMAIN ids : resources[ids[i]] = g
       /\ resources' = Restrict(resources, DOMAIN resources \ Range(ids))
       /\ toClient' = toClient \o [i \in DOMAIN ids |-> Removed(ids[i])]
                               \o <<[event |-> "global_remove", global |-> g]>>
  /\ UNCHANGED <<toServer, program>>

\* A bind of what is gone is answered with an error and the end of the id.
ServeBind ==
  /\ toServer # <<>>
  /\ toServer' = Tail(toServer)
  /\ LET call == Head(toServer)
     IN  IF call.global \in globals
         THEN resources' = With(resources, call.id, call.global) /\ UNCHANGED toClient
         ELSE toClient' = Append(toClient, Removed(call.id)) /\ UNCHANGED resources
  /\ UNCHANGED <<globals, gone, program>>

------------------------------------------------------------------------------
(* The program *)

\* The types that pw-mon binds.
Wants(g) == TypeOf[g] \in {"Node", "Port", "Link", "Metadata"}

Event(kind) == looping /\ toClient # <<>> /\ Head(toClient).event = kind
Taken == toClient' = Tail(toClient) /\ UNCHANGED <<globals, gone, resources>>

\* Registry::bind: the library makes the proxy at once, with an id of its own.
Bind(g, id) ==
  /\ made' = made + 1
  /\ proxies' = With(proxies, id, made')
  /\ toServer' = Append(toServer, [global |-> g, id |-> id])

\* listeners.entry(id).or_default().push
Push(id, kinds) ==
  listeners' = With(listeners, id,
                    (IF id \in DOMAIN listeners THEN listeners[id] ELSE {})
                      \cup {[on |-> made', for |-> k] : k \in kinds})

\* Mutants: the listener for removed is not kept; the key is the global's.
AddDropsListener(g, id) ==
  /\ proxies_t' = With(proxies_t, id, [proxy |-> made', of |-> g])
  /\ Push(id, {"object"})
AddByGlobal(g, id) ==
  /\ proxies_t' = With(proxies_t, g, [proxy |-> made', of |-> g])
  /\ Push(g, {"object", "removed"})

\* add_proxy_t and add_proxy_listener.
Add(g, id) ==
  /\ proxies_t' = With(proxies_t, id, [proxy |-> made', of |-> g])
  /\ Push(id, {"object", "removed"})

GlobalEvent ==
  /\ Event("global") /\ Taken
  /\ LET g == Head(toClient).global
     IN  IF Wants(g)
         THEN \E id \in Ids \ DOMAIN proxies : Bind(g, id) /\ Add(g, id)
         ELSE UNCHANGED <<toServer, made, proxies, proxies_t, listeners>>
  /\ UNCHANGED looping

GlobalRemoveEvent ==
  /\ Event("global_remove") /\ Taken
  /\ UNCHANGED <<toServer, program>>

\* Mutant: the listeners stay.
RemoveProxyOnly(id) ==
  /\ proxies_t' = Without(proxies_t, id)
  /\ UNCHANGED listeners

\* Proxies::remove
Remove(id) ==
  /\ proxies_t' = Without(proxies_t, id)
  /\ listeners' = Without(listeners, id)

\* The library calls the listeners for removed that are registered on the
\* proxy; what is dropped of proxies is destroyed and its id free.
RemovedEvent ==
  /\ Event("removed") /\ Taken
  /\ LET id == Head(toClient).id
         called == \E key \in DOMAIN listeners :
                     [on |-> proxies[id], for |-> "removed"] \in listeners[key]
     IN  IF called
         THEN /\ Remove(id)
              /\ proxies' = Restrict(proxies, {i \in DOMAIN proxies :
                   \E key \in DOMAIN proxies_t' : proxies_t'[key].proxy = proxies[i]})
         ELSE UNCHANGED <<proxies, proxies_t, listeners>>
  /\ UNCHANGED <<toServer, made, looping>>

\* A signal or an error of the core quits the loop; the maps are dropped with
\* the closure that owns them (what is in them refers to them weakly), and so
\* are the proxies.
Quit ==
  /\ looping
  /\ looping' = FALSE
  /\ proxies_t' = Empty /\ listeners' = Empty /\ proxies' = Empty
  /\ UNCHANGED <<server, toServer, made>>

------------------------------------------------------------------------------
Dispatch == GlobalEvent \/ GlobalRemoveEvent \/ RemovedEvent

MonitorNext == \/ \E g \in Globals : Appear(g) \/ Vanish(g)
               \/ ServeBind \/ Dispatch \/ Quit

MonitorSpec == MonitorInit /\ [][MonitorNext]_monitorVars

\* Messages arrive and the loop dispatches.
MonitorFairness == WF_monitorVars(ServeBind) /\ WF_monitorVars(Dispatch)

------------------------------------------------------------------------------
(* Properties *)

\* The shape of the state.
MonitorTypeOK ==
  /\ globals \subseteq Globals /\ gone \subseteq Globals \ globals
  /\ DOMAIN resources \subseteq Ids /\ Range(resources) \subseteq globals
  /\ DOMAIN proxies \subseteq Ids /\ Range(proxies) \subseteq 1..made
  /\ DOMAIN proxies_t \subseteq Ids
  /\ Range(proxies_t) \subseteq [proxy : 1..made, of : Globals]
  /\ DOMAIN listeners \subseteq Ids
  /\ UNION Range(listeners) \subseteq [on : 1..made, for : {"object", "removed"}]
  /\ looping \in BOOLEAN

\* Between callbacks the maps hold exactly the proxies that the library has,
\* each under its id and with its own listeners: no listener is left from a
\* proxy that had the id before, and no proxy is in use that nobody drops.
MapsMirrorLibrary ==
  /\ DOMAIN proxies_t = DOMAIN proxies /\ DOMAIN listeners = DOMAIN proxies
  /\ \A id \in DOMAIN proxies :
       /\ proxies_t[id].proxy = proxies[id]
       /\ listeners[id] = {[on |-> proxies[id], for |-> k] : k \in {"object", "removed"}}

\* What the server has bound for an id is what the program keeps under it,
\* unless the news that it is gone are on their way.
ServerAgrees ==
  looping => \A id \in DOMAIN resources :
               id \in DOMAIN proxies_t /\ proxies_t[id].of = resources[id]

\* What the maps do not show yet is on its way: a global that the program wants
\* and that exists is announced, asked for or bound, and what is kept of a
\* global that is gone will be answered or is told of.  Nothing is overlooked,
\* and nothing is kept for good, whatever overtakes what.
NewsOnTheWay ==
  looping =>
    /\ \A g \in globals :
         TypeOf[g] \in {"Node", "Port", "Link", "Metadata"} =>
           \/ [event |-> "global", global |-> g] \in Range(toClient)
           \/ \E call \in Range(toServer) : call.global = g
           \/ g \in Range(resources)
    /\ \A id \in DOMAIN proxies_t :
         proxies_t[id].of \in gone =>
           \/ Removed(id) \in Range(toClient)
           \/ \E call \in Range(toServer) : call.id = id

Kept(g) == \E id \in DOMAIN proxies_t : proxies_t[id].of = g

\* A global of a type the program wants is bound while it exists, and kept no
\* longer than until the news that it is gone arrive, though it may have
\* vanished before it was bound.
MapsFollowServer ==
  \A g \in Globals :
    /\ g \in globals /\ TypeOf[g] \in {"Node", "Port", "Link", "Metadata"}
         ~> Kept(g) \/ g \in gone \/ ~looping
    /\ g \in gone ~> [](~Kept(g) \/ ~looping)
==============================================================================
