---------------------------- MODULE SmartProtocol ----------------------------
(***************************************************************************)
(* One smart-protocol connection (src/ceres/src/protocol/mod.rs): the      *)
(* SmartProtocol record built by new(), the monorepo root path rewrite,    *)
(* and the parsing of the service name and of capability tokens.  The     *)
(* phases of the session (spec 4.4) are driven by the smart module, which *)
(* is not in the sources; they follow the spec.                           *)
(***************************************************************************)
EXTENDS Naturals, FiniteSets

CONSTANTS
    Paths,         \* request paths
    RootNames,     \* values MEGA_MONOREPO_ROOT_NAME may have
    Unset,         \* an environment variable that is not set
    Slash,         \* PathBuf::from("/")
    ServiceNames,  \* service strings a request may carry
    Tokens,        \* capability tokens a client may declare
    MaxTokens      \* the most tokens a client declares

Transports == {"Local", "Http", "Ssh", "Git", "P2p"}

(* ServiceType::from_str: the two service names, anything else an error  *)
(* with code 400.                                                          *)
ServiceFromStr(s) ==
    CASE s = "git-upload-pack" -> "UploadPack"
      [] s = "git-receive-pack" -> "ReceivePack"
      [] OTHER -> "Err400"

(* ServiceType::to_string.                                                 *)
ServiceToString(t) == IF t = "UploadPack" THEN "git-upload-pack" ELSE "git-receive-pack"

(* Capability::from_str: the ten known tokens; any other is Err(()).      *)
CapTable == [t \in {"report-status", "report-status-v2", "side-band", "side-band-64k",
                    "ofs-delta", "multi_ack", "multi_ack_detailed", "no-done",
                    "deepen-since", "deepen-not"} |->
               CASE t = "report-status" -> "ReportStatus"
                 [] t = "report-status-v2" -> "ReportStatusv2"
                 [] t = "side-band" -> "SideBand"
                 [] t = "side-band-64k" -> "SideBand64k"
                 [] t = "ofs-delta" -> "OfsDelta"
                 [] t = "multi_ack" -> "MultiAck"
                 [] t = "multi_ack_detailed" -> "MultiAckDetailed"
                 [] t = "no-done" -> "NoDone"
                 [] t = "deepen-since" -> "DeepenSince"
                 [] OTHER -> "DeepenNot"]
CapFromStr(t) == IF t \in DOMAIN CapTable THEN CapTable[t] ELSE "Err"

VARIABLES
    phase,          \* where the session is (spec 4.4)
    transport,      \* transport_protocol
    capabilities,   \* capabilities
    path,           \* path
    serviceType,    \* service_type
    request,        \* the service string of the request
    rootName        \* the MEGA_MONOREPO_ROOT_NAME of the process, or Unset

vars == <<phase, transport, capabilities, path, serviceType, request, rootName>>

Init ==
    /\ phase = "none"
    /\ transport = "Http" /\ capabilities = {} /\ path = Slash
    /\ serviceType = "ReceivePack" /\ request = "none"
    /\ rootName \in RootNames \cup {Unset}

(* SmartProtocol::new(path, context, transport_protocol): no             *)
(* capabilities, no commands, and service_type ReceivePack until the      *)
(* service is known.                                                       *)
New ==
    /\ phase = "none"
    /\ \E p \in Paths, t \in Transports :
         /\ path' = p /\ transport' = t
    /\ capabilities' = {} /\ serviceType' = "ReceivePack"
    /\ phase' = "created"
    /\ UNCHANGED request

(* handle_monorepo_root_path: env::var(...).unwrap() panics when the     *)
(* variable is not set; the root name becomes "/".                        *)
HandleMonorepoRootPath ==
    /\ phase = "created"
    /\ IF rootName = Unset
       THEN phase' = "panicked" /\ UNCHANGED path
       ELSE /\ path' = IF path = rootName THEN Slash ELSE path
            /\ phase' = "init"
    /\ UNCHANGED <<transport, capabilities, serviceType, request>>

(* Init -> CapabilitiesNegotiated: every declared token goes through      *)
(* Capability::from_str and the errors are dropped.                        *)
Negotiate ==
    /\ phase = "init"
    /\ \E ts \in SUBSET Tokens :
         /\ Cardinality(ts) <= MaxTokens
         /\ capabilities' = {CapFromStr(t) : t \in ts} \ {"Err"}
    /\ phase' = "negotiated"
    /\ UNCHANGED <<transport, path, serviceType, request>>

(* Mutant of SetService: the two service names are swapped.              *)
SetServiceSwapped ==
    /\ phase = "negotiated"
    /\ \E s \in ServiceNames :
         /\ request' = s
         /\ LET t == ServiceFromStr(s) IN
            IF t = "Err400"
            THEN phase' = "rejected" /\ UNCHANGED serviceType
            ELSE /\ serviceType' = IF t = "UploadPack" THEN "ReceivePack" ELSE "UploadPack"
                 /\ phase' = "advertised"
    /\ UNCHANGED <<transport, capabilities, path>>

(* CapabilitiesNegotiated -> RefsAdvertised: the service string goes      *)
(* through ServiceType::from_str; an error closes the session with 400.   *)
SetService ==
    /\ phase = "negotiated"
    /\ \E s \in ServiceNames :
         /\ request' = s
         /\ LET t == ServiceFromStr(s) IN
            IF t = "Err400"
            THEN phase' = "rejected" /\ UNCHANGED serviceType
            ELSE serviceType' = t /\ phase' = "advertised"
    /\ UNCHANGED <<transport, capabilities, path>>

(* RefsAdvertised -> AwaitingCommands for a push; a fetch goes on to      *)
(* send its pack and closes.                                               *)
Proceed ==
    /\ phase = "advertised"
    /\ phase' = IF serviceType = "ReceivePack" THEN "awaiting" ELSE "closed"
    /\ UNCHANGED <<transport, capabilities, path, serviceType, request>>

Rest == UNCHANGED rootName

Next == Rest /\ (New \/ HandleMonorepoRootPath \/ Negotiate \/ SetService \/ Proceed)

Spec == Init /\ [][Next]_vars

-----------------------------------------------------------------------------
(* Type invariant.                                                          *)
TypeOK ==
    /\ phase \in {"none", "created", "panicked", "init", "negotiated", "rejected",
                  "advertised", "awaiting", "closed"}
    /\ transport \in Transports
    /\ capabilities \subseteq {CapTable[t] : t \in DOMAIN CapTable}
    /\ path \in Paths \cup {Slash}
    /\ serviceType \in {"UploadPack", "ReceivePack"}

(* Spec 6: the service strings map one to one onto the service types, so *)
(* a session waits for ref commands exactly when the client asked for     *)
(* git-receive-pack, and a fetch (git-upload-pack) never does, although   *)
(* new() starts every session as ReceivePack.                              *)
PushOnlyWhenRequested ==
    /\ phase \in {"advertised", "awaiting", "closed"} => ServiceToString(serviceType) = request
    /\ phase = "awaiting" => request = "git-receive-pack"
=============================================================================
