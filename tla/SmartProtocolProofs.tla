------------------------- MODULE SmartProtocolProofs -------------------------
(***************************************************************************)
(* PushOnlyWhenRequested for every set of paths, root names,    *)
(* service strings and capability tokens.                                  *)
(***************************************************************************)
EXTENDS SmartProtocol, TLAPS

ServiceStrings == {"git-upload-pack", "git-receive-pack"}

(* ServiceType::from_str accepts exactly the two service names.           *)
LEMMA ServiceFromStrAccepts ==
    ASSUME NEW s
    PROVE  ServiceFromStr(s) # "Err400" <=> s \in ServiceStrings
BY DEF ServiceFromStr, ServiceStrings

(* ServiceType::to_string undoes from_str on the names it accepts.        *)
LEMMA ServiceRoundTrip ==
    ASSUME NEW s \in ServiceStrings
    PROVE  /\ ServiceFromStr(s) \in {"UploadPack", "ReceivePack"}
           /\ ServiceToString(ServiceFromStr(s)) = s
BY DEF ServiceFromStr, ServiceToString, ServiceStrings

(* Once the service is known, the session's service type is what the     *)
(* request's service string parses to, and only a receive-pack session    *)
(* waits for commands.  PushOnlyWhenRequested alone is not inductive:    *)
(* Proceed reads serviceType, not the request.                           *)
ServiceState ==
    /\ phase \in {"advertised", "awaiting", "closed"} =>
         request \in ServiceStrings /\ serviceType = ServiceFromStr(request)
    /\ phase = "awaiting" => serviceType = "ReceivePack"

IInv == TypeOK /\ ServiceState

(* Capability::from_str yields one of the ten capabilities or Err.        *)
LEMMA CapFromStrRange ==
    ASSUME NEW t, CapFromStr(t) # "Err"
    PROVE  CapFromStr(t) \in {CapTable[u] : u \in DOMAIN CapTable}
BY DEF CapFromStr

LEMMA InitIInv == Init => IInv
BY DEF Init, IInv, TypeOK, ServiceState, Transports

LEMMA StepIInv == IInv /\ [Next]_vars => IInv'
<1> SUFFICES ASSUME IInv, [Next]_vars PROVE IInv'
  OBVIOUS
<1>1. CASE New
  BY <1>1 DEF New, IInv, TypeOK, ServiceState
<1>2. CASE HandleMonorepoRootPath
  BY <1>2 DEF HandleMonorepoRootPath, IInv, TypeOK, ServiceState
<1>3. CASE Negotiate
  <2>1. PICK ts \in SUBSET Tokens :
          capabilities' = {CapFromStr(t) : t \in ts} \ {"Err"}
    BY <1>3 DEF Negotiate
  <2>2. capabilities' \subseteq {CapTable[u] : u \in DOMAIN CapTable}
    BY <2>1, CapFromStrRange
  <2> QED
    BY <1>3, <2>2 DEF Negotiate, IInv, TypeOK, ServiceState
<1>4. CASE SetService
  <2>1. PICK s \in ServiceNames :
          /\ request' = s
          /\ IF ServiceFromStr(s) = "Err400"
             THEN phase' = "rejected" /\ UNCHANGED serviceType
             ELSE serviceType' = ServiceFromStr(s) /\ phase' = "advertised"
    BY <1>4 DEF SetService
  <2>2. CASE ServiceFromStr(s) = "Err400"
    BY <1>4, <2>1, <2>2 DEF SetService, IInv, TypeOK, ServiceState
  <2>3. CASE ServiceFromStr(s) # "Err400"
    <3>1. s \in ServiceStrings
      BY <2>3, ServiceFromStrAccepts
    <3>2. ServiceFromStr(s) \in {"UploadPack", "ReceivePack"}
      BY <3>1, ServiceRoundTrip
    <3> QED
      BY <1>4, <2>1, <2>3, <3>1, <3>2 DEF SetService, IInv, TypeOK, ServiceState
  <2> QED
    BY <2>2, <2>3
<1>5. CASE Proceed
  BY <1>5 DEF Proceed, IInv, TypeOK, ServiceState
<1>6. CASE UNCHANGED vars
  BY <1>6 DEF vars, IInv, TypeOK, ServiceState
<1>7. QED
  BY <1>1, <1>2, <1>3, <1>4, <1>5, <1>6 DEF Next, Rest

(* handle_monorepo_root_path and the parsers never let a fetch wait for    *)
(* ref commands: in every reachable state the stored service type prints *)
(* as the client's service string, and a session awaiting commands was    *)
(* asked for git-receive-pack, although new() sets ReceivePack for all.  *)
THEOREM PushOnlyWhenAsked == Spec => []PushOnlyWhenRequested
<1>1. IInv => PushOnlyWhenRequested
  <2> SUFFICES ASSUME IInv PROVE PushOnlyWhenRequested
    OBVIOUS
  <2>1. phase \in {"advertised", "awaiting", "closed"} => ServiceToString(serviceType) = request
    BY ServiceRoundTrip DEF IInv, ServiceState
  <2>2. phase = "awaiting" => request = "git-receive-pack"
    BY DEF IInv, ServiceState, ServiceStrings, ServiceFromStr
  <2> QED
    BY <2>1, <2>2 DEF PushOnlyWhenRequested
<1>2. QED
  BY InitIInv, StepIInv, <1>1, PTL DEF Spec
=============================================================================
