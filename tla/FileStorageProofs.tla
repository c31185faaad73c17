-------------------------- MODULE FileStorageProofs --------------------------
(***************************************************************************)
(* Theorems about FileStorage, for all namespaces, drivers and lists of    *)
(* options, and every order in which the providers are resolved.           *)
(***************************************************************************)
EXTENDS FileStorage, FiniteSetTheorems, TLAPS

(* What validateOptionsNamespaces has let pass.                            *)
Valid ==
    /\ IsUnique
    /\ \A k \in DOMAIN options : options[k].useClientFrom # None => GoodReference(options[k])

(* A provider is resolved after the validation, and that of a client after *)
(* the options of its namespace have been found.                           *)
PhaseOK ==
    /\ phase = "resolve" => Valid
    /\ \A ns \in DOMAIN asked :
          /\ step[ns] # "options" => Valid /\ phase # "validate"
          /\ step[ns] # "options" /\ phase = "resolve" => ns \in Configured
          /\ step[ns] \in {"service", "done"} => ns \in Configured

(* The clients there are have the numbers from 1 on, each its own.         *)
Made == {ns \in Namespaces : clientInstances[ns] # None}

ClientsOK ==
    /\ IsFiniteSet(Made)
    /\ \A m \in Made : clientInstances[m] \in 1 .. Cardinality(Made)
    /\ \A m, n \in Made : clientInstances[m] = clientInstances[n] => m = n

(* What has been handed out is the client of the source, and multer has it *)
(* only if its driver is that of the options.                              *)
HandedOut ==
    \A ns \in DOMAIN asked :
        /\ step[ns] \in {"service", "done"} =>
              Source(ns) \in Made /\ client[ns] = clientInstances[Source(ns)]
        /\ multer[ns] # None => IsDeclared(ns)
        /\ multer[ns] # None => step[ns] \in {"service", "done"}

FailedOK == phase = "failed" => ~WellConfigured

IndInv == TypeOK /\ PhaseOK /\ ClientsOK /\ HandedOut /\ FailedOK

-----------------------------------------------------------------------------
(* The options. *)

LEMMA OptionFields ==
    ASSUME TypeOK, NEW k \in DOMAIN options
    PROVE  /\ options[k] \in Options /\ options[k].namespace \in Namespaces
           /\ options[k].useClientFrom \in Namespaces \cup {None}
<1>1. PICK n \in 0 .. MaxOptions : options \in [1 .. n -> Options]
  BY DEF TypeOK, OptionLists
<1>2. options[k] \in Options
  BY <1>1
<1>3. QED
  BY <1>2 DEF Options

(* find returns the options of a namespace that is configured.             *)
LEMMA Found ==
    ASSUME NEW ns \in Configured
    PROVE  \E k \in DOMAIN options : options[k].namespace = ns /\ OptionsOf(ns) = options[k]
<1>1. \E k \in DOMAIN options : options[k].namespace = ns
  BY DEF Configured
<1>2. QED
  BY <1>1 DEF OptionsOf

LEMMA FoundOnly ==
    ASSUME IsUnique, NEW k \in DOMAIN options
    PROVE  options[k].namespace \in Configured /\ OptionsOf(options[k].namespace) = options[k]
<1> DEFINE ns == options[k].namespace
<1>1. ns \in Configured
  BY DEF Configured
<1>2. PICK j \in DOMAIN options : options[j].namespace = ns /\ OptionsOf(ns) = options[j]
  BY <1>1, Found
<1>3. j = k
  BY <1>2 DEF IsUnique
<1>4. QED
  BY <1>1, <1>2, <1>3

(* The source of a namespace has a client of its own.                      *)
LEMMA SourceHasClient ==
    ASSUME TypeOK, Valid, NEW ns \in Configured
    PROVE  /\ Source(ns) \in Namespaces /\ Source(ns) \in Configured
           /\ OptionsOf(Source(ns)).useClientFrom = None
<1>1. PICK k \in DOMAIN options : options[k].namespace = ns /\ OptionsOf(ns) = options[k]
  BY Found
<1>2. ns \in Namespaces /\ options[k].useClientFrom \in Namespaces \cup {None}
  BY <1>1, OptionFields
<1>3. CASE options[k].useClientFrom = None
  BY <1>1, <1>2, <1>3 DEF Source
<1>4. CASE options[k].useClientFrom # None
  <2>1. GoodReference(options[k]) /\ Source(ns) = options[k].useClientFrom
    BY <1>1, <1>4 DEF Valid, Source
  <2>2. QED
    BY <1>2, <1>4, <2>1 DEF GoodReference
<1>5. QED
  BY <1>3, <1>4

(* The validation passes the options of a good configuration, and a good   *)
(* configuration is one that passes, asks for nothing that is missing and  *)
(* has the drivers multer expects.                                         *)
LEMMA WellConfiguredIff ==
    ASSUME TypeOK
    PROVE  WellConfigured <=>
              /\ Valid
              /\ \A ns \in DOMAIN asked :
                    ns \in Configured /\ (asked[ns] # None => IsDeclared(ns))
<1>1. ASSUME IsUnique, NEW k \in DOMAIN options, options[k].useClientFrom # None
      PROVE  GoodReference(options[k]) <=>
                \E j \in DOMAIN options : /\ options[j].namespace = options[k].useClientFrom
                                          /\ options[j].useClientFrom = None
                                          /\ options[j].driver = options[k].driver
  <2> DEFINE from == options[k].useClientFrom
  <2>1. ASSUME GoodReference(options[k])
        PROVE  \E j \in DOMAIN options : /\ options[j].namespace = from
                                         /\ options[j].useClientFrom = None
                                         /\ options[j].driver = options[k].driver
    <3>1. from \in Configured
      BY <2>1 DEF GoodReference
    <3>2. PICK j \in DOMAIN options : options[j].namespace = from /\ OptionsOf(from) = options[j]
      BY <3>1, Found
    <3>3. QED
      BY <2>1, <3>2 DEF GoodReference
  <2>2. ASSUME NEW j \in DOMAIN options, options[j].namespace = from,
               options[j].useClientFrom = None, options[j].driver = options[k].driver
        PROVE  GoodReference(options[k])
    <3>1. from \in Configured /\ OptionsOf(from) = options[j]
      BY <1>1, <2>2, FoundOnly
    <3>2. QED
      BY <2>2, <3>1 DEF GoodReference
  <2>3. QED
    BY <2>1, <2>2
<1>2. QED
  BY <1>1 DEF WellConfigured, Valid, IsDeclared

-----------------------------------------------------------------------------
(* The inductive invariant. *)

LEMMA InitInd == Init => IndInv
<1> SUFFICES ASSUME Init PROVE IndInv
  OBVIOUS
<1>1. PICK S \in SUBSET Namespaces : asked \in [S -> Drivers \cup {None}]
  BY DEF Init
<1>2. DOMAIN asked = S
  BY <1>1
<1>3. TypeOK
  BY <1>1, <1>2 DEF Init, TypeOK, Steps
<1>4. Made = {}
  BY DEF Init, Made
<1>5. ClientsOK
  BY <1>4, FS_EmptySet DEF ClientsOK
<1>6. PhaseOK /\ HandedOut /\ FailedOK
  BY DEF Init, PhaseOK, HandedOut, FailedOK
<1>7. QED
  BY <1>3, <1>5, <1>6 DEF IndInv

(* The options and who asks for them never change, nor does what is made   *)
(* of them alone.                                                          *)
LEMMA StaticOptions ==
    ASSUME UNCHANGED <<options, asked>>
    PROVE  /\ Valid' = Valid /\ Configured' = Configured /\ WellConfigured' = WellConfigured
           /\ \A ns : Source(ns)' = Source(ns) /\ IsDeclared(ns)' = IsDeclared(ns)
BY DEF Valid, IsUnique, GoodReference, Configured, OptionsOf, WellConfigured, Source, IsDeclared

LEMMA SameClients ==
    ASSUME ClientsOK, UNCHANGED clientInstances
    PROVE  ClientsOK' /\ Made' = Made
BY DEF ClientsOK, Made

LEMMA ValidateKeeps == ASSUME IndInv, ValidateOptionsNamespaces PROVE IndInv'
<1> USE DEF IndInv
<1>1. /\ phase = "validate" /\ phase' = (IF Valid THEN "resolve" ELSE "failed")
      /\ UNCHANGED <<options, asked, step, clientInstances, client, multer>>
  BY DEF ValidateOptionsNamespaces, Valid
<1>2. TypeOK'
  BY <1>1 DEF TypeOK, OptionLists, Options
<1>3. \A ns \in DOMAIN asked : step[ns] = "options"
  BY <1>1 DEF PhaseOK
<1>4. PhaseOK'
  BY <1>1, <1>3, StaticOptions DEF PhaseOK
<1>5. ClientsOK' /\ HandedOut'
  BY <1>1, StaticOptions, SameClients DEF HandedOut
<1>6. FailedOK'
  BY <1>1, WellConfiguredIff, StaticOptions DEF FailedOK
<1>7. QED
  BY <1>2, <1>4, <1>5, <1>6

LEMMA ResolveOptionsKeeps ==
    ASSUME IndInv, NEW ns \in Namespaces, ResolveOptions(ns)
    PROVE  IndInv'
<1> USE DEF IndInv
<1>1. /\ phase = "resolve" /\ ns \in DOMAIN asked /\ step[ns] = "options"
      /\ step' = [step EXCEPT ![ns] = "client"]
      /\ phase' = (IF ns \in Configured THEN phase ELSE "failed")
      /\ UNCHANGED <<options, asked, clientInstances, client, multer>>
  BY DEF ResolveOptions, Resolving
<1>2. TypeOK'
  BY <1>1 DEF TypeOK, OptionLists, Options, Steps
<1>3. \A m \in DOMAIN asked : step'[m] = IF m = ns THEN "client" ELSE step[m]
  BY <1>1 DEF TypeOK
<1>4. PhaseOK'
  BY <1>1, <1>3, StaticOptions DEF PhaseOK
<1>5. ClientsOK' /\ HandedOut'
  BY <1>1, <1>3, StaticOptions, SameClients DEF HandedOut
<1>6. FailedOK'
  <2>1. ns \notin Configured => ~WellConfigured
    BY <1>1 DEF WellConfigured
  <2>2. QED
    BY <1>1, <2>1, StaticOptions DEF FailedOK
<1>7. QED
  BY <1>2, <1>4, <1>5, <1>6

(* A client that is made is the next one, and the only one that is new.    *)
LEMMA MakeClient ==
    ASSUME TypeOK, ClientsOK, NEW source \in Namespaces, clientInstances[source] = None,
           clientInstances' = [clientInstances EXCEPT ![source] = NewClient]
    PROVE  ClientsOK' /\ Made' = Made \cup {source} /\ NewClient \in Nat
<1>1. /\ IsFiniteSet(Made) /\ Cardinality(Made) \in Nat /\ source \notin Made
      /\ NewClient = Cardinality(Made) + 1
  BY FS_CardinalityType DEF ClientsOK, Made, NewClient
<1>2. NewClient \in Nat /\ NewClient # None
  BY <1>1, FileStorageAssumption
<1>3. \A m \in Namespaces :
        clientInstances'[m] = IF m = source THEN NewClient ELSE clientInstances[m]
  BY DEF TypeOK
<1>4. Made' = Made \cup {source}
  BY <1>2, <1>3 DEF Made
<1>5. IsFiniteSet(Made') /\ Cardinality(Made') = Cardinality(Made) + 1
  BY <1>1, <1>4, FS_AddElement
<1>6. \A m \in Made : m \in Namespaces /\ m # source
  BY <1>1 DEF Made
<1>7. \A m \in Made' : clientInstances'[m] \in 1 .. Cardinality(Made')
  BY <1>1, <1>3, <1>4, <1>5, <1>6 DEF ClientsOK
<1>8. \A m, n \in Made' : clientInstances'[m] = clientInstances'[n] => m = n
  <2>1. \A m \in Made : clientInstances[m] # NewClient
    BY <1>1 DEF ClientsOK
  <2>2. QED
    BY <1>3, <1>4, <1>6, <2>1 DEF ClientsOK
<1>9. QED
  BY <1>2, <1>4, <1>5, <1>7, <1>8 DEF ClientsOK

LEMMA ResolveClientKeeps ==
    ASSUME IndInv, NEW ns \in Namespaces, ResolveClient(ns)
    PROVE  IndInv'
<1> USE DEF IndInv
<1> DEFINE source == Source(ns)
           made == IF clientInstances[source] # None THEN clientInstances[source] ELSE NewClient
<1>1. /\ phase = "resolve" /\ ns \in DOMAIN asked /\ step[ns] = "client"
      /\ step' = [step EXCEPT ![ns] = "service"]
      /\ UNCHANGED <<options, asked, phase, multer>>
  BY DEF ResolveClient, Resolving
<1>2. /\ Valid /\ ns \in Configured
      /\ source \in Namespaces /\ OptionsOf(source).useClientFrom = None
  BY <1>1, SourceHasClient DEF PhaseOK
<1>3. /\ clientInstances' = [clientInstances EXCEPT ![source] = made]
      /\ client' = [client EXCEPT ![ns] = made]
  BY <1>2 DEF ResolveClient, KeyOf
<1>4. /\ ClientsOK' /\ Made' = Made \cup {source} /\ made \in Nat
      /\ \A m \in Made : clientInstances'[m] = clientInstances[m]
  <2>1. CASE clientInstances[source] # None
    <3>1. clientInstances' = clientInstances /\ source \in Made
      BY <1>2, <1>3, <2>1 DEF TypeOK, Made
    <3>2. made \in Nat
      BY <1>2, <2>1 DEF TypeOK
    <3>3. QED
      BY <3>1, <3>2, SameClients
  <2>2. CASE clientInstances[source] = None
    BY <1>2, <1>3, <2>2, MakeClient DEF TypeOK, Made
  <2>3. QED
    BY <2>1, <2>2
<1>5. \A m \in DOMAIN asked :
        /\ step'[m] = IF m = ns THEN "service" ELSE step[m]
        /\ client'[m] = IF m = ns THEN made ELSE client[m]
  BY <1>1, <1>3 DEF TypeOK
<1>6. TypeOK'
  <2>1. step' \in [DOMAIN asked -> Steps]
    BY <1>1 DEF TypeOK, Steps
  <2>2. client' \in [DOMAIN asked -> Nat \cup {None}]
    BY <1>3, <1>4 DEF TypeOK
  <2>3. clientInstances' \in [Namespaces -> Nat \cup {None}]
    BY <1>3, <1>4 DEF TypeOK
  <2>4. QED
    BY <1>1, <2>1, <2>2, <2>3 DEF TypeOK, OptionLists, Options
<1>7. PhaseOK'
  BY <1>1, <1>2, <1>5, StaticOptions DEF PhaseOK
<1>8. HandedOut'
  <2> SUFFICES ASSUME NEW m \in DOMAIN asked
               PROVE  (/\ step[m] \in {"service", "done"} =>
                             Source(m) \in Made /\ client[m] = clientInstances[Source(m)]
                       /\ multer[m] # None => IsDeclared(m)
                       /\ multer[m] # None => step[m] \in {"service", "done"})'
    BY <1>1 DEF HandedOut
  <2>1. CASE m = ns
    <3>1. clientInstances'[source] = made
      BY <1>2, <1>3 DEF TypeOK
    <3>2. QED
      BY <1>1, <1>4, <1>5, <2>1, <3>1, StaticOptions DEF HandedOut
  <2>2. CASE m # ns
    BY <1>1, <1>4, <1>5, <2>2, StaticOptions DEF HandedOut
  <2>3. QED
    BY <2>1, <2>2
<1>9. FailedOK'
  BY <1>1, StaticOptions DEF FailedOK
<1>10. QED
  BY <1>4, <1>6, <1>7, <1>8, <1>9

LEMMA ResolveServiceKeeps ==
    ASSUME IndInv, NEW ns \in Namespaces, ResolveService(ns)
    PROVE  IndInv'
<1> USE DEF IndInv
<1>1. /\ phase = "resolve" /\ ns \in DOMAIN asked /\ step[ns] = "service"
      /\ step' = [step EXCEPT ![ns] = "done"]
      /\ UNCHANGED <<options, asked, phase, clientInstances, client, multer>>
  BY DEF ResolveService, Resolving
<1>2. \A m \in DOMAIN asked : step'[m] = IF m = ns THEN "done" ELSE step[m]
  BY <1>1 DEF TypeOK
<1>3. TypeOK'
  BY <1>1 DEF TypeOK, OptionLists, Options, Steps
<1>4. PhaseOK'
  BY <1>1, <1>2, StaticOptions DEF PhaseOK
<1>5. ClientsOK' /\ HandedOut'
  BY <1>1, <1>2, StaticOptions, SameClients DEF HandedOut
<1>6. FailedOK'
  BY <1>1, StaticOptions DEF FailedOK
<1>7. QED
  BY <1>3, <1>4, <1>5, <1>6

LEMMA ResolveMulterKeeps ==
    ASSUME IndInv, NEW ns \in Namespaces, ResolveMulter(ns)
    PROVE  IndInv'
<1> USE DEF IndInv
<1>1. /\ phase = "resolve" /\ ns \in DOMAIN asked /\ asked[ns] # None
      /\ step[ns] \in {"service", "done"}
      /\ UNCHANGED <<options, asked, step, clientInstances, client>>
  BY DEF ResolveMulter
<1>2. CASE IsDeclared(ns) /\ multer' = [multer EXCEPT ![ns] = client[ns]] /\ UNCHANGED phase
  <2>1. \A m \in DOMAIN asked : multer'[m] = IF m = ns THEN client[ns] ELSE multer[m]
    BY <1>2 DEF TypeOK
  <2>2. TypeOK'
    BY <1>1, <1>2 DEF TypeOK, OptionLists, Options, Steps
  <2>3. PhaseOK'
    BY <1>1, <1>2, StaticOptions DEF PhaseOK
  <2>4. ClientsOK' /\ HandedOut'
    BY <1>1, <1>2, <2>1, StaticOptions, SameClients DEF HandedOut
  <2>5. FailedOK'
    BY <1>1, <1>2, StaticOptions DEF FailedOK
  <2>6. QED
    BY <2>2, <2>3, <2>4, <2>5
<1>3. CASE ~IsDeclared(ns) /\ phase' = "failed" /\ UNCHANGED multer
  <2>1. ~WellConfigured
    BY <1>1, <1>3, WellConfiguredIff
  <2>2. TypeOK'
    BY <1>1, <1>3 DEF TypeOK, OptionLists, Options, Steps
  <2>3. PhaseOK'
    BY <1>1, <1>3, StaticOptions DEF PhaseOK
  <2>4. ClientsOK' /\ HandedOut'
    BY <1>1, <1>3, StaticOptions, SameClients DEF HandedOut
  <2>5. FailedOK'
    BY <1>1, <1>3, <2>1, StaticOptions DEF FailedOK
  <2>6. QED
    BY <2>2, <2>3, <2>4, <2>5
<1>4. QED
  BY <1>2, <1>3 DEF ResolveMulter

LEMMA StepInd == IndInv /\ [Next]_vars => IndInv'
<1> SUFFICES ASSUME IndInv, [Next]_vars PROVE IndInv'
  OBVIOUS
<1>1. CASE UNCHANGED vars
  <2>1. UNCHANGED <<options, asked, phase, step, clientInstances, client, multer>>
    BY <1>1 DEF vars
  <2>2. TypeOK' /\ PhaseOK' /\ ClientsOK' /\ HandedOut'
    BY <2>1, StaticOptions, SameClients DEF IndInv, TypeOK, OptionLists, Options, PhaseOK, HandedOut
  <2>3. FailedOK'
    BY <2>1, StaticOptions DEF IndInv, FailedOK
  <2>4. QED
    BY <2>2, <2>3 DEF IndInv
<1>2. QED
  BY <1>1, ValidateKeeps, ResolveOptionsKeeps, ResolveClientKeeps, ResolveServiceKeeps,
     ResolveMulterKeeps
  DEF Next

LEMMA Inductive == Spec => []IndInv
<1>1. IndInv /\ [Next]_vars => IndInv'
  BY StepInd
<1>2. QED
  BY <1>1, InitInd, PTL DEF Spec

-----------------------------------------------------------------------------
(* Theorems. *)

(* Every provider is undefined or one of the clients made so far, and none *)
(* is there for a namespace that no module asks for.                       *)
THEOREM TypeCorrect == Spec => []TypeOK
<1>1. IndInv => TypeOK
  BY DEF IndInv
<1>2. QED
  BY <1>1, Inductive, PTL

(* However many namespaces share a client and whichever of them is         *)
(* resolved first: each is given a client, and two the same one exactly if *)
(* they have the same source.                                              *)
THEOREM SourcesHaveOneClient == Spec => []OneClientPerSource
<1>1. ASSUME IndInv PROVE OneClientPerSource
  <2> SUFFICES ASSUME NEW m \in Resolved, NEW n \in Resolved
               PROVE  client[m] # None /\ ((client[m] = client[n]) <=> (Source(m) = Source(n)))
    BY DEF OneClientPerSource
  <2>1. /\ Source(m) \in Made /\ client[m] = clientInstances[Source(m)]
        /\ Source(n) \in Made /\ client[n] = clientInstances[Source(n)]
    BY <1>1 DEF IndInv, HandedOut, Resolved
  <2>2. QED
    BY <1>1, <2>1 DEF IndInv, ClientsOK, Made
<1>2. QED
  BY <1>1, Inductive, PTL

(* An application that has started is as its configuration says.           *)
LEMMA StartedIsConfigured ==
    ASSUME TypeOK, PhaseOK, HandedOut, phase = "resolve", Started
    PROVE  WellConfigured
<1>1. Valid
  BY DEF PhaseOK
<1>2. ASSUME NEW ns \in DOMAIN asked
      PROVE  ns \in Configured /\ (asked[ns] # None => IsDeclared(ns))
  <2>1. step[ns] = "done" /\ (asked[ns] # None => multer[ns] = client[ns])
    BY <1>2 DEF Started
  <2>2. ns \in Configured /\ Source(ns) \in Made /\ client[ns] = clientInstances[Source(ns)]
    BY <1>2, <2>1 DEF PhaseOK, HandedOut
  <2>3. client[ns] # None
    BY <2>2 DEF Made
  <2>4. QED
    BY <1>2, <2>1, <2>2, <2>3 DEF HandedOut
<1>3. QED
  BY <1>1, <1>2, WellConfiguredIff

(* In no order of resolution does a bootstrap fail whose configuration is  *)
(* good, or one complete whose configuration is not.                       *)
THEOREM OrderDecidesNothing == Spec => []EndsAsConfigured
<1>1. IndInv => EndsAsConfigured
  BY StartedIsConfigured DEF IndInv, FailedOK, EndsAsConfigured
<1>2. QED
  BY <1>1, Inductive, PTL
=============================================================================
