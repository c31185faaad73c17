----------------------------- MODULE FileStorage ----------------------------
(***************************************************************************)
(* The bootstrap of the file storage: the options are validated, and the   *)
(* providers of every namespace that some module asks for are resolved, in *)
(* any order their dependencies allow.  A namespace may take its client    *)
(* from another, which is resolved earlier, later or not at all.           *)
(***************************************************************************)
EXTENDS Integers, Sequences, FiniteSets

CONSTANTS
    Namespaces, Drivers,
    MaxOptions,      \* bound: namespaces that are configured
    None

ASSUME FileStorageAssumption ==
    None \notin Namespaces \cup Drivers \cup Nat /\ MaxOptions \in Nat

VARIABLES
    options,         \* what createFileStorageOptions returns
    asked,           \* namespaces of forFeature, with the driver multer is
                     \* configured for, or None
    phase,           \* of the bootstrap: validate, resolve, failed
    step,            \* the provider of each namespace that is resolved next
    clientInstances, \* the client of each source, a number, or None
    client,          \* what the client provider of each namespace returns
    multer           \* the client of its multer storage, once there is one

vars == <<options, asked, phase, step, clientInstances, client, multer>>

Steps == {"options", "client", "service", "done"}

(* The types make every entry have a client or take that of another.       *)
Options == [namespace : Namespaces, driver : Drivers,
            useClientFrom : Namespaces \cup {None}]

OptionLists == UNION {[1 .. n -> Options] : n \in 0 .. MaxOptions}

Init ==
    /\ options \in OptionLists
    /\ asked \in UNION {[S -> Drivers \cup {None}] : S \in SUBSET Namespaces}
    /\ phase = "validate"
    /\ step = [ns \in DOMAIN asked |-> "options"]
    /\ clientInstances = [ns \in Namespaces |-> None]
    /\ client = [ns \in DOMAIN asked |-> None]
    /\ multer = [ns \in DOMAIN asked |-> None]

-----------------------------------------------------------------------------
Configured == {options[k].namespace : k \in DOMAIN options}

(* optionsByNamespace, find: the options of a namespace, which is unique.  *)
OptionsOf(ns) ==
    options[CHOOSE k \in DOMAIN options : options[k].namespace = ns]

IsUnique == \A j, k \in DOMAIN options :
    options[j].namespace = options[k].namespace => j = k

(* The source exists, has a client of its own and the same driver.         *)
GoodReference(o) ==
    /\ o.useClientFrom \in Configured
    /\ OptionsOf(o.useClientFrom).useClientFrom = None
    /\ OptionsOf(o.useClientFrom).driver = o.driver

ValidateOptionsNamespaces ==
    /\ phase = "validate"
    /\ phase' = IF /\ IsUnique
                   /\ \A k \in DOMAIN options :
                         options[k].useClientFrom # None => GoodReference(options[k])
                THEN "resolve" ELSE "failed"
    /\ UNCHANGED <<options, asked, step, clientInstances, client, multer>>

Resolving(ns, from, to) ==
    /\ phase = "resolve" /\ ns \in DOMAIN asked
    /\ step[ns] = from
    /\ step' = [step EXCEPT ![ns] = to]

(* A namespace nobody has configured stops the bootstrap.                  *)
ResolveOptions(ns) ==
    /\ Resolving(ns, "options", "client")
    /\ phase' = IF ns \in Configured THEN phase ELSE "failed"
    /\ UNCHANGED <<options, asked, clientInstances, client, multer>>

Source(ns) ==
    IF OptionsOf(ns).useClientFrom = None THEN ns ELSE OptionsOf(ns).useClientFrom

(* A plausible bug: a client is kept under the namespace that made it.     *)
BugKeyOf(ns) == ns

(* The key of clientInstances. *)
KeyOf(ns) == Source(ns)

(* createFileStorageClient *)
NewClient == Cardinality({ns \in Namespaces : clientInstances[ns] # None}) + 1

(* The client of the source is made by whoever needs it first.             *)
ResolveClient(ns) ==
    /\ Resolving(ns, "client", "service")
    /\ LET source == Source(ns)
           made == IF clientInstances[KeyOf(ns)] # None THEN clientInstances[KeyOf(ns)]
                   ELSE IF OptionsOf(source).useClientFrom # None THEN None
                   ELSE NewClient
       IN  /\ clientInstances' = [clientInstances EXCEPT ![KeyOf(ns)] = made]
           /\ client' = [client EXCEPT ![ns] = made]
    /\ UNCHANGED <<options, asked, phase, multer>>

ResolveService(ns) ==
    /\ Resolving(ns, "service", "done")
    /\ UNCHANGED <<options, asked, phase, clientInstances, client, multer>>

(* A plausible bug: multer is registered for any driver. *)
BugDeclared(ns) == TRUE

IsDeclared(ns) == OptionsOf(ns).driver = asked[ns]

(* The multer module of the namespace needs its options and its client.    *)
ResolveMulter(ns) ==
    /\ phase = "resolve" /\ ns \in DOMAIN asked
    /\ asked[ns] # None /\ step[ns] \in {"service", "done"} /\ multer[ns] = None
    /\ IF IsDeclared(ns)
       THEN multer' = [multer EXCEPT ![ns] = client[ns]] /\ UNCHANGED phase
       ELSE phase' = "failed" /\ UNCHANGED multer
    /\ UNCHANGED <<options, asked, step, clientInstances, client>>

Next ==
    \/ ValidateOptionsNamespaces
    \/ \E ns \in Namespaces :
          ResolveOptions(ns) \/ ResolveClient(ns) \/ ResolveService(ns) \/ ResolveMulter(ns)

Spec == Init /\ [][Next]_vars /\ WF_vars(Next)

-----------------------------------------------------------------------------
(* Properties. *)

(* What is resolved, and handed out, has its type.                         *)
TypeOK ==
    /\ options \in OptionLists
    /\ DOMAIN asked \subseteq Namespaces /\ asked \in [DOMAIN asked -> Drivers \cup {None}]
    /\ phase \in {"validate", "resolve", "failed"}
    /\ step \in [DOMAIN asked -> Steps]
    /\ clientInstances \in [Namespaces -> Nat \cup {None}]
    /\ client \in [DOMAIN asked -> Nat \cup {None}]
    /\ multer \in [DOMAIN asked -> Nat \cup {None}]

Resolved == {ns \in DOMAIN asked : step[ns] \in {"service", "done"}}

(* Whatever the options and the order, S3StorageService and s3Storage are  *)
(* given a client, and two namespaces the same exactly if they have one    *)
(* source.                                                                 *)
OneClientPerSource ==
    \A m, n \in Resolved :
        client[m] # None /\ ((client[m] = client[n]) <=> (Source(m) = Source(n)))

(* What a configuration must be: one entry for a namespace, clients taken  *)
(* from one that has its own and the same driver, and all that is asked    *)
(* for is there.                                                           *)
WellConfigured ==
    /\ IsUnique
    /\ \A k \in DOMAIN options :
          LET from == options[k].useClientFrom
              sources == {j \in DOMAIN options : options[j].namespace = from}
          IN  from # None =>
                \E j \in sources : /\ options[j].useClientFrom = None
                                   /\ options[j].driver = options[k].driver
    /\ \A ns \in DOMAIN asked :
          ns \in Configured /\ (asked[ns] # None => OptionsOf(ns).driver = asked[ns])

Started ==
    \A ns \in DOMAIN asked : step[ns] = "done" /\ (asked[ns] # None => multer[ns] = client[ns])

(* The order decides nothing: an application whose bootstrap has failed is *)
(* not well configured, and one whose providers are all there is.          *)
EndsAsConfigured ==
    /\ phase = "failed" => ~WellConfigured
    /\ phase = "resolve" /\ Started => WellConfigured

(* An application starts, with every provider that is asked for, or it     *)
(* fails, as its configuration says.                                       *)
BootsAsConfigured ==
    /\ WellConfigured => <>[](phase = "resolve" /\ Started)
    /\ ~WellConfigured => <>[](phase = "failed")
=============================================================================
