------------------------------ MODULE Startup ------------------------------
(***************************************************************************)
(* neuron-sdk.go, with the parts of hedera/rpc.go, hedera/main.go and      *)
(* buyer-case.go that run once: from the start of the process to a node    *)
(* that serves, and again after every end of it.  It composes NatInfo,     *)
(* which runs twice before the host takes the port and, for a buyer who is *)
(* not reachable and has had UPnP open it, a third time; and EnvFile,      *)
(* which the application uses while the node runs and the next start       *)
(* depends on.                                                             *)
(*                                                                         *)
(* The supervisor that starts the process again, the contract and the      *)
(* router are outside src/.                                                *)
(***************************************************************************)
EXTENDS NatInfo, EnvFile

CONSTANTS MaxRetries,   \* calls of the contract before GetPeerInfo gives up: 25
          UseLocal      \* the use-local-address flag

ASSUME StartupAssumption ==
    /\ MaxRetries \in Nat \ {0}
    /\ UseLocal \in BOOLEAN
    /\ {"smart_contract_address", "private_key", "location"} \subseteq Settings

VARIABLES
    pc,             \* where the process is; "down" when there is none
    tries,          \* calls of the contract that failed
    configurator,   \* keyAndLocationConfigurator: missing, one that sends from
                    \* another goroutine, one that sends itself, one that is empty
    registered,     \* the contract knows this node and its topics
    upnp,           \* the flag is off, or the router refuses, or it opens the port
    given           \* observer: the settings that the operator put into the file

startVars == <<pc, tries, configurator, registered, upnp, given>>
chosen    == <<configurator, registered, upnp, given>>
vars      == <<router, holes, way, port, test, asked, first, second, mapping,
               natReachability, faults, tidy, env, bak, tmp, upc, envMap, whole,
               pc, tries, configurator, registered, upnp, given>>

TypeOK ==
    /\ NatTypeOK /\ EnvTypeOK
    /\ pc \in {"init", "nat1", "launch", "nat2", "keys", "configure", "host",
               "topics", "role", "nat3", "serving", "down"}
    /\ tries \in 0 .. MaxRetries - 1
    /\ configurator \in {"nil", "async", "inline", "empty"}
    /\ registered \in BOOLEAN
    /\ upnp \in {"off", "refused", "granted"}
    /\ given \in SUBSET Settings

Init ==
    /\ NatInit /\ EnvInit
    /\ env \in {Settings, {"smart_contract_address"}, {}}    \* empty before it is set up
    /\ given = env
    /\ pc = "init" /\ tries = 0
    /\ configurator \in {"nil", "async", "inline", "empty"}
    /\ registered \in BOOLEAN
    /\ upnp \in {"off", "refused", "granted"}

-----------------------------------------------------------------------------
(* The end of a process and the next one.                                  *)

\* The sockets and the globals are gone; the router and the network go on.
Ends ==
    /\ pc' = "down" /\ tries' = 0
    /\ port' = "free" /\ test' = "none" /\ asked' = FALSE
    /\ first' = "none" /\ second' = "none" /\ mapping' = "unknown"
    /\ natReachability' = FALSE /\ tidy' = TRUE
    /\ upc' = "idle" /\ envMap' = {}
    /\ UNCHANGED <<router, holes, way, env, bak, tmp, whole, chosen>>

Goto2(l) == pc' = l /\ UNCHANGED <<tries, chosen>>

Killed == pc # "down" /\ Fault /\ Ends

Restarted ==
    /\ pc = "down" /\ Goto2("init")
    /\ UNCHANGED <<natVars, faults, envVars>>

-----------------------------------------------------------------------------
(* init and LaunchSDK.                                                     *)

\* os.Exit(1) without a contract address; the flag that could give it is not set.
InitChecks ==
    /\ pc = "init"
    /\ IF "smart_contract_address" \in env
         THEN /\ Goto2(IF UseLocal THEN "launch" ELSE "nat1")
              /\ UNCHANGED <<natVars, faults, envVars>>
         ELSE Ends /\ Fine

NatBegins ==
    /\ pc \in {"nat1", "launch", "nat3"} /\ test = "none"
    /\ Begin
    /\ Goto2(IF pc = "launch" THEN "nat2" ELSE pc)
    /\ UNCHANGED envVars

NatRuns ==
    /\ pc \in {"nat1", "nat2", "nat3"} /\ getNatInfo
    /\ IF test' = "none"
         THEN Goto2(IF pc = "nat1" THEN "launch" ELSE IF pc = "nat2" THEN "keys" ELSE "serving")
         ELSE UNCHANGED startVars
    /\ UNCHANGED envVars

NatPanics == test = "panic" /\ Ends /\ Fine

\* SetupKeysAndLocation.
LoadKeys ==
    /\ pc = "keys"
    /\ Goto2(IF {"private_key", "location"} \subseteq env THEN "host" ELSE "configure")
    /\ UNCHANGED <<natVars, faults, envVars>>

\* HandleFallbackConfigurator.  A nil configurator is a panic.  The channel is
\* read after the configurator has returned and has no room, so only one that
\* sends from a goroutine of its own gets past it; it wrote the file before,
\* or has to say that it could not.
Configure ==
    /\ pc = "configure"
    /\ \/ configurator = "nil" /\ Ends /\ Fine
       \/ /\ configurator = "async" /\ Fine
          /\ env' = env \cup {"private_key", "location"}
          /\ Goto2("host")
          /\ UNCHANGED <<natVars, bak, tmp, upc, envMap, whole>>
       \/ configurator = "async" /\ Ends /\ Fault

\* Mutant: it waits for the port to become free.
CreateHost_Waits ==
    /\ pc = "host" /\ port = "free" /\ Fine
    /\ port' = "host" /\ Goto2("topics")
    /\ UNCHANGED <<router, holes, way, test, asked, first, second, mapping,
                   natReachability, tidy, envVars>>

\* createHost listens on the port, and panics when it is taken.
CreateHost ==
    /\ pc = "host"
    /\ \/ /\ port = "free" /\ Fine
          /\ port' = "host" /\ Goto2("topics")
          /\ UNCHANGED <<router, holes, way, test, asked, first, second, mapping,
                         natReachability, tidy, envVars>>
       \/ port # "free" /\ Ends /\ Fine

\* EnsureTopicsAndNotifyContract: a node the contract does not know cannot go on.
PeerUnknown == pc = "topics" /\ ~registered /\ Ends /\ Fine

GotTopics ==
    /\ pc = "topics" /\ registered
    /\ pc' = "role" /\ tries' = 0 /\ UNCHANGED chosen
    /\ UNCHANGED <<natVars, faults, envVars>>

\* Mutant: one try too many.
ContractFails_OneMore ==
    /\ pc = "topics" /\ Fault
    /\ IF tries < MaxRetries
         THEN /\ tries' = tries + 1 /\ UNCHANGED <<pc, chosen, natVars, envVars>>
         ELSE Ends

\* The contract does not answer: GetPeerInfo sleeps and tries again, and after
\* the last try the node panics.
ContractFails ==
    /\ pc = "topics" /\ Fault
    /\ IF tries + 1 < MaxRetries
         THEN /\ tries' = tries + 1 /\ UNCHANGED <<pc, chosen, natVars, envVars>>
         ELSE Ends

\* HandleBuyerCase: a buyer who is not reachable has the port opened, if the
\* flag and the router allow it, and then looks at the router again.
HandleBuyerCase ==
    /\ pc = "role"
    /\ Goto2(IF ~natReachability /\ upnp = "granted" THEN "nat3" ELSE "serving")
    /\ UNCHANGED <<natVars, faults, envVars>>

LaunchSDK ==
    \/ InitChecks \/ NatBegins \/ NatRuns \/ NatPanics \/ LoadKeys \/ Configure
    \/ CreateHost \/ PeerUnknown \/ GotTopics \/ HandleBuyerCase

-----------------------------------------------------------------------------
(* The node serves.                                                        *)

UpdateEnvVariable ==
    /\ pc = "serving"
    /\ \/ Fine /\ \E key \in Extra : ReadEnv(key)
       \/ Fine /\ writeEnvFile
       \/ Fault /\ (UpdateFails \/ RenameFails)
    /\ UNCHANGED <<natVars, startVars>>

Next ==
    \/ LaunchSDK \/ ContractFails \/ UpdateEnvVariable
    \/ Killed \/ Restarted
    \/ /\ \E e \in Endpoints : LoseAnswer(e)
       /\ UNCHANGED <<envVars, startVars>>

\* The process goes on and is started again; nothing makes a fault happen.
Fairness == WF_vars(LaunchSDK) /\ WF_vars(Restarted)

Spec == Init /\ [][Next]_vars /\ Fairness

-----------------------------------------------------------------------------
(* Properties.                                                             *)

\* What a start cannot do without and was never there: the contract address,
\* or the keys with a configurator that can supply them; an entry in the
\* contract; a port that NAT detection can bind.
Hopeless ==
    \/ "smart_contract_address" \notin given
    \/ ~({"private_key", "location"} \subseteq given) /\ configurator # "async"
    \/ ~registered
    \/ upnp = "granted" /\ ~Reachable

\* The file has lost settings that the operator had put into it.
Torn == ~(given \subseteq env)

\* A node that was given what it needs serves in the end, and again after each
\* end of its process: no lost or late answer, no socket left bound and no
\* contract that is away for a while stops it for good.  Of the updates of the
\* environment file only one whose restore is cut off, which leaves a torn
\* file, can do so.
ServesInTheEnd == <>[](pc = "serving") \/ <>[](Hopeless \/ Torn)

\* What the head of environment.go says: changes are written back safely, with
\* a backup that avoids accidental loss.  A start never looks at the backup: a
\* rename that fails and a restore that is cut off leave a file without which
\* every later start exits.
ComesBack == <>[](pc = "serving") \/ <>[]Hopeless

\* What the README says of the configurator: one may leave it empty.  The
\* channel is then read for ever, and so it is with one that sends before it
\* returns.
EmptyConfiguratorReturns == pc = "configure" /\ configurator = "empty" ~> pc # "configure"

\* What the README says of enable-upnp: the node becomes more accessible.
\* The second look at the router binds the port that the host listens on.
UpnpHelps == upnp = "granted" /\ registered => <>(pc = "serving")
=============================================================================
