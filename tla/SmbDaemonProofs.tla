-------------------------- MODULE SmbDaemonProofs --------------------------
(***************************************************************************)
(* Proofs about the SMB daemon object (SmbDaemon): that every state the    *)
(* framework can drive it into is well typed, and that the memoization of *)
(* validate() and _layout() holds for every raw config, rank and host      *)
(* inventory, not only the ones MCSmbDaemon enumerates.                    *)
(***************************************************************************)
EXTENDS SmbDaemon, SmbLayoutProofs

(* validate() returning a Config (lines 416-475) means every check passed: *)
(* the result is MakeConfig's record, and the port was an int and every   *)
(* public address entry a well-formed {address, destinations} dict.        *)
LEMMA ParseOk ==
    ASSUME NEW r, NEW ri, RawOK(r), ri \in Int \X Int, ParseConfig(r, ri).ok
    PROVE  /\ ParseConfig(r, ri).cfg = MakeConfig(r, ri)
           /\ ConfigOK(MakeConfig(r, ri))
<1>1. /\ ParseConfig(r, ri) = [ok |-> TRUE, cfg |-> MakeConfig(r, ri)]
      /\ r.metrics_port # NotANumber
      /\ PublicAddrsWellFormed(r)
    BY DEF ParseConfig, Fail
<1>2. r.metrics_port \in Int
    BY <1>1 DEF RawOK
<1>3. r.cluster_public_addrs \in Seq([address : STRING, destinations : Seq(STRING)])
    <2> DEFINE A == r.cluster_public_addrs
               T == [address : STRING, destinations : Seq(STRING)]
    <2>1. A \in Seq(T \cup {Malformed})
        BY DEF RawOK
    <2>2. \A i \in 1..Len(A) : A[i] # Malformed
        BY <1>1 DEF PublicAddrsWellFormed
    <2>3. Len(A) \in Nat /\ A \in [1..Len(A) -> T \cup {Malformed}]
        BY <2>1, LenProperties
    <2>4. A \in [1..Len(A) -> T]
        BY <2>2, <2>3
    <2> QED
        BY <2>3, <2>4, FunIsSeq
<1>4. ri[1] \in Int /\ ri[2] \in Int
    OBVIOUS
<1> QED
    BY <1>1, <1>2, <1>3, <1>4 DEF MakeConfig, ConfigOK, RawOK

(* A role built with the default image is a well-typed layout entry.      *)
LEMMA CtrOK ==
    ASSUME NEW r \in Roles
    PROVE  Ctr(r) \in CtrType
BY EmptyIsString DEF Ctr, CtrType, NoImage, ImageType

(* SMB._layout (lines 510-540) of a well-typed Config is a well-typed      *)
(* layout: the metrics sidecar gets the stripped image of the config.      *)
LEMMA BuildLayoutOK ==
    ASSUME NEW cfg, ConfigOK(cfg)
    PROVE  BuildLayout(cfg) \in LayoutType
<1>1. \A r \in Roles : Ctr(r) \in CtrType
    BY CtrOK
<1>2. [name |-> "smbmetrics", image |-> Strip(cfg.metrics_image)] \in CtrType
    BY DEF ConfigOK, Strip, ImageType, CtrType, Roles, SidecarRoles
<1>3. \A r \in Roles : <<Ctr(r)>> \in Seq(CtrType)
    BY <1>1
<1> QED
    BY <1>1, <1>2, <1>3 DEF BuildLayout, LayoutType, Roles, InitRoles, SidecarRoles

(* customize_container_endpoints (lines 686-690) keeps a list of ports a   *)
(* list of ports.                                                          *)
LEMMA WithPortOK ==
    ASSUME NEW eps \in Seq(Nat), NEW p \in Nat
    PROVE  WithPort(eps, p) \in Seq(Nat)
BY DEF WithPort

(* prepare_data_dir only writes paths of the data directory.               *)
LEMMA ApplyStepsDomain ==
    ASSUME NEW d, NEW steps, NEW k
    PROVE  DOMAIN ApplySteps(d, steps, k) = DOMAIN d
BY DEF ApplySteps

(* The saturating history counters stay within their bound.               *)
LEMMA BumpOK ==
    ASSUME NEW n \in 0..CountCap
    PROVE  Bump(n) \in 0..CountCap
BY DEF Bump, CountCap

(* Whenever _cfg returns normally, the Config it returns is well typed.    *)
LEMMA CfgOK ==
    ASSUME TypeOK, CfgAvailable
    PROVE  /\ ConfigOK(Cfg)
           /\ instCfg = None => Parsed.ok /\ Cfg = MakeConfig(raw, rankInfo)
<1>1. RawOK(raw) /\ rankInfo \in Int \X Int
    BY DaemonAssumption DEF TypeOK
<1>1a. CASE instCfg = None
    <2>1. Parsed.ok
        BY <1>1a DEF CfgAvailable
    <2> QED
        BY <1>1, <1>1a, <2>1, ParseOk DEF Cfg, Parsed
<1>2. CASE instCfg # None
    BY <1>2 DEF TypeOK, Cfg
<1> QED
    BY <1>1a, <1>2

(* validate() returning normally leaves a well-typed memoized Config and  *)
(* a bounded load counter.                                                 *)
LEMMA ValidateOkOK ==
    ASSUME TypeOK, ValidateOk
    PROVE  /\ instCfg' = None \/ ConfigOK(instCfg')
           /\ netLoads' \in 0..CountCap
           /\ instCfg' = Cfg
<1>1. ConfigOK(Cfg)
    BY CfgOK DEF ValidateOk
<1>2. CASE instCfg # None
    BY <1>2 DEF ValidateOk, TypeOK, Cfg
<1>3. CASE instCfg = None
    <2>1. instCfg' = Parsed.cfg /\ Parsed.cfg = Cfg
        BY <1>3 DEF ValidateOk, Cfg
    <2>2. netLoads' \in {netLoads, Bump(netLoads)}
        BY <1>3 DEF ValidateOk
    <2> QED
        BY <1>1, <2>1, <2>2, BumpOK DEF TypeOK
<1> QED
    BY <1>2, <1>3

(* validate() raising changes nothing but the exception raised.            *)
LEMMA ValidateRaisesOK ==
    ASSUME TypeOK, ValidateRaises
    PROVE  TypeOK'
BY DEF ValidateRaises, TypeOK, objVars

(* _layout() returning normally (lines 510-540) memoizes a well-typed      *)
(* layout and keeps the memoized Config well typed.                        *)
LEMMA LayoutOkOK ==
    ASSUME TypeOK, CfgAvailable, LayoutOk
    PROVE  /\ instCfg' = None \/ ConfigOK(instCfg')
           /\ netLoads' \in 0..CountCap
           /\ cachedLayout' \in {None} \cup LayoutType
           /\ layoutBuilds' \in 0..CountCap
<1>1. CASE cachedLayout # None
    BY <1>1 DEF LayoutOk, TypeOK
<1>2. CASE cachedLayout = None
    <2>1. ValidateOk /\ cachedLayout' = BuildLayout(Cfg)
                     /\ layoutBuilds' = Bump(layoutBuilds)
        BY <1>2 DEF LayoutOk
    <2>2. ConfigOK(Cfg)
        BY CfgOK
    <2> QED
        BY <2>1, <2>2, ValidateOkOK, BuildLayoutOK, BumpOK DEF TypeOK
<1> QED
    BY <1>1, <1>2

(* SMB.__init__ (lines 377-389) with what the context holds starts a well *)
(* typed object over an empty data directory.                              *)
LEMMA TypeInit ==
    Init => TypeOK
<1> SUFFICES ASSUME Init PROVE TypeOK
    OBVIOUS
<1>1. endpoints \in Seq(Nat)
    BY DaemonAssumption DEF Init
<1>2. DOMAIN disk = DataPaths
    BY DEF Init
<1>3. /\ raw \in RawConfigs /\ rankInfo \in RankInfos /\ hostNets \in HostInventories
      /\ instCfg = None /\ cachedLayout = None /\ prepDone = FALSE
      /\ layoutBuilds = 0 /\ netLoads = 0
    BY DEF Init
<1>4. layoutBuilds \in 0..CountCap /\ netLoads \in 0..CountCap
    BY <1>3 DEF CountCap
<1>5. cachedLayout \in {None} \cup LayoutType
    BY <1>3
<1> QED
    BY <1>1, <1>2, <1>3, <1>4, <1>5 DEF TypeOK

(* Every call of the framework, failed write and redeploy keeps the state  *)
(* well typed.                                                             *)
LEMMA TypeStep ==
    TypeOK /\ [Next]_vars => TypeOK'
<1> SUFFICES ASSUME TypeOK, [Next]_vars PROVE TypeOK'
    OBVIOUS
<1>1. ASSUME NEW m \in ValidateMethods, ValidateCall(m) PROVE TypeOK'
    <2>1. CASE ValidateOk /\ lastErr' = None
               /\ UNCHANGED <<raw, rankInfo, hostNets, cachedLayout, layoutBuilds,
                              disk, prepDone, endpoints>>
        BY <2>1, ValidateOkOK DEF TypeOK
    <2>2. CASE ValidateRaises
        BY <2>2, ValidateRaisesOK
    <2> QED
        BY <1>1, <2>1, <2>2 DEF ValidateCall
<1>2. ASSUME NEW m \in LayoutMethods, LayoutCall(m) PROVE TypeOK'
    <2>1. CASE CfgAvailable /\ LayoutOk /\ lastErr' = None
               /\ UNCHANGED <<raw, rankInfo, hostNets, disk, prepDone, endpoints>>
        BY <2>1, LayoutOkOK DEF TypeOK
    <2>2. CASE ValidateRaises
        BY <2>2, ValidateRaisesOK
    <2> QED
        BY <1>2, <2>1, <2>2 DEF LayoutCall
<1>3. CASE CustomizeEndpoints
    <2>1. endpoints' \in Seq(Nat)
        BY <1>3, WithPortOK, ConstAssumption, DaemonAssumption
        DEF CustomizeEndpoints, TypeOK
    <2> QED
        BY <1>3, <2>1 DEF CustomizeEndpoints, TypeOK, objVars
<1>4. CASE PrepareDataDir
    <2>1. CASE /\ ValidateOk
               /\ UNCHANGED <<raw, rankInfo, hostNets, cachedLayout,
                              layoutBuilds, endpoints>>
               /\ LET steps == PrepSteps(instCfg', files', networks')
                  IN  \E k \in 0..Len(steps) :
                        /\ disk' = ApplySteps(disk, steps, k)
                        /\ prepDone' = (k = Len(steps))
                        /\ lastErr' = IF k = Len(steps) THEN None ELSE "OSError"
        <3>1. DOMAIN disk' = DataPaths /\ prepDone' \in BOOLEAN
            BY <2>1, ApplyStepsDomain DEF TypeOK
        <3> QED
            BY <2>1, <3>1, ValidateOkOK DEF TypeOK
    <2>2. CASE ValidateRaises
        BY <2>2, ValidateRaisesOK
    <2> QED
        BY <1>4, <2>1, <2>2 DEF PrepareDataDir
<1>5. CASE NewProcess
    <2>1. /\ raw' \in RawConfigs /\ rankInfo' \in RankInfos
          /\ hostNets' \in HostInventories /\ endpoints' \in InitialEndpoints
          /\ instCfg' = None /\ cachedLayout' = None /\ prepDone' = FALSE
          /\ layoutBuilds' = 0 /\ netLoads' = 0 /\ disk' = disk
        BY <1>5 DEF NewProcess
    <2>2. endpoints' \in Seq(Nat)
        BY <2>1, DaemonAssumption
    <2>3. layoutBuilds' \in 0..CountCap /\ netLoads' \in 0..CountCap
        BY <2>1 DEF CountCap
    <2>4. cachedLayout' \in {None} \cup LayoutType
        BY <2>1
    <2> QED
        BY <2>1, <2>2, <2>3, <2>4 DEF TypeOK
<1>6. CASE UNCHANGED vars
    BY <1>6 DEF vars, TypeOK
<1> QED
    BY <1>1, <1>2, <1>3, <1>4, <1>5, <1>6 DEF Next

(* Every state the framework can drive an SMB object and its data          *)
(* directory into, by any sequence of calls, failed writes and redeploys,  *)
(* is well typed: in particular the memoized Config and layout, the        *)
(* endpoint list and the data directory's paths.                           *)
THEOREM TypeCorrect == Spec => []TypeOK
BY TypeInit, TypeStep, PTL DEF Spec

(***************************************************************************)
(* Memoization.  LayoutMemoized and NetworksLoadedOnDemand are not         *)
(* inductive as stated: "at most one build" says nothing of whether the    *)
(* next _layout() call will build again.  MemoInv ties each history        *)
(* counter to the cache it guards: a layout was built exactly when one is  *)
(* cached, and the inventory was loaded exactly when the memoized Config   *)
(* has public addresses.  Both rest on the memoized Config being the one   *)
(* this process's raw config and rank give.                                *)
(***************************************************************************)
MemoInv ==
    /\ TypeOK
    /\ instCfg # None => instCfg = MakeConfig(raw, rankInfo)
    /\ layoutBuilds = IF cachedLayout = None THEN 0 ELSE 1
    /\ cachedLayout # None => instCfg # None /\ cachedLayout = BuildLayout(instCfg)
    /\ netLoads = IF instCfg # None /\ instCfg.cluster_public_addrs # <<>>
                    THEN 1 ELSE 0

(* validate() returning normally (lines 412-478): afterwards a Config is   *)
(* memoized and is what _cfg returned; a memoized one is kept; and the     *)
(* inventory has been loaded exactly when that Config has public          *)
(* addresses.                                                              *)
LEMMA ValidateOkMemo ==
    ASSUME MemoInv, ValidateOk
    PROVE  /\ instCfg' # None
           /\ instCfg' = Cfg
           /\ Cfg = MakeConfig(raw, rankInfo)
           /\ instCfg # None => instCfg' = instCfg
           /\ netLoads' = IF instCfg'.cluster_public_addrs # <<>> THEN 1 ELSE 0
<1>1. CASE instCfg # None
    BY <1>1 DEF ValidateOk, MemoInv, Cfg
<1>2. CASE instCfg = None
    <2>1. Parsed.ok /\ Cfg = MakeConfig(raw, rankInfo)
        BY <1>2, CfgOK DEF ValidateOk, MemoInv
    <2>2. MakeConfig(raw, rankInfo) # None
        BY DaemonAssumption DEF MemoInv, TypeOK
    <2>3. instCfg' = Parsed.cfg /\ Parsed.cfg = Cfg
        BY <1>2 DEF ValidateOk, Cfg
    <2>4. netLoads = 0
        BY <1>2 DEF MemoInv
    <2>5. netLoads' = IF Parsed.cfg.cluster_public_addrs # <<>>
                        THEN Bump(netLoads) ELSE netLoads
        BY <1>2 DEF ValidateOk
    <2> QED
        BY <1>2, <2>1, <2>2, <2>3, <2>4, <2>5 DEF Bump, CountCap
<1> QED
    BY <1>1, <1>2

(* A call that validates without touching the layout cache                 *)
(* (validate, container, customize_container_mounts, prepare_data_dir)     *)
(* keeps the caches and their counters in step.                            *)
LEMMA ValidateKeepsMemo ==
    ASSUME MemoInv, TypeOK', ValidateOk,
           UNCHANGED <<raw, rankInfo, cachedLayout, layoutBuilds>>
    PROVE  MemoInv'
<1>1. cachedLayout # None => instCfg # None
    BY DEF MemoInv
<1> QED
    BY <1>1, ValidateOkMemo DEF MemoInv

(* _layout() returning normally (lines 510-540): it builds the layout     *)
(* only when none is cached, from the Config it memoizes.                  *)
LEMMA LayoutOkMemo ==
    ASSUME MemoInv, TypeOK', CfgAvailable, LayoutOk, UNCHANGED <<raw, rankInfo>>
    PROVE  MemoInv'
<1>1. CASE cachedLayout # None
    BY <1>1 DEF LayoutOk, MemoInv
<1>2. CASE cachedLayout = None
    <2>1. /\ ValidateOk
          /\ cachedLayout' = BuildLayout(Cfg)
          /\ layoutBuilds' = Bump(layoutBuilds)
        BY <1>2 DEF LayoutOk
    <2>2. layoutBuilds = 0
        BY <1>2 DEF MemoInv
    <2>3. layoutBuilds' = 1
        BY <2>1, <2>2 DEF Bump, CountCap
    <2>4. cachedLayout' # None
        BY <2>1, ValidateOkMemo, DaemonAssumption DEF MemoInv, TypeOK
    <2> QED
        BY <2>1, <2>3, <2>4, ValidateOkMemo DEF MemoInv
<1> QED
    BY <1>1, <1>2

LEMMA MemoInit ==
    Init => MemoInv
BY TypeInit DEF Init, MemoInv

LEMMA MemoStep ==
    MemoInv /\ [Next]_vars => MemoInv'
<1> SUFFICES ASSUME MemoInv, [Next]_vars PROVE MemoInv'
    OBVIOUS
<1>0. TypeOK'
    BY TypeStep DEF MemoInv
<1>1. ASSUME NEW m \in ValidateMethods, ValidateCall(m) PROVE MemoInv'
    <2>1. CASE ValidateOk /\ UNCHANGED <<raw, rankInfo, cachedLayout, layoutBuilds>>
        BY <2>1, <1>0, ValidateKeepsMemo
    <2>2. CASE ValidateRaises
        BY <2>2, <1>0 DEF ValidateRaises, MemoInv, objVars
    <2> QED
        BY <1>1, <2>1, <2>2 DEF ValidateCall
<1>2. ASSUME NEW m \in LayoutMethods, LayoutCall(m) PROVE MemoInv'
    <2>1. CASE CfgAvailable /\ LayoutOk /\ UNCHANGED <<raw, rankInfo>>
        BY <2>1, <1>0, LayoutOkMemo
    <2>2. CASE ValidateRaises
        BY <2>2, <1>0 DEF ValidateRaises, MemoInv, objVars
    <2> QED
        BY <1>2, <2>1, <2>2 DEF LayoutCall
<1>3. CASE CustomizeEndpoints
    BY <1>3, <1>0 DEF CustomizeEndpoints, MemoInv, objVars
<1>4. CASE PrepareDataDir
    <2>1. CASE ValidateOk /\ UNCHANGED <<raw, rankInfo, cachedLayout, layoutBuilds>>
        BY <2>1, <1>0, ValidateKeepsMemo
    <2>2. CASE ValidateRaises
        BY <2>2, <1>0 DEF ValidateRaises, MemoInv, objVars
    <2> QED
        BY <1>4, <2>1, <2>2 DEF PrepareDataDir
<1>5. CASE NewProcess
    BY <1>5, <1>0 DEF NewProcess, MemoInv
<1>6. CASE UNCHANGED vars
    BY <1>6, <1>0 DEF vars, MemoInv
<1> QED
    BY <1>1, <1>2, <1>3, <1>4, <1>5, <1>6 DEF Next

(* However the framework orders its calls on one SMB object, _layout()    *)
(* builds the layout at most once and always returns the layout of the    *)
(* memoized Config (SMB._layout, lines 510-540).                           *)
THEOREM LayoutMemoizedHolds == Spec => []LayoutMemoized
<1>1. MemoInv => LayoutMemoized
    BY DEF MemoInv, LayoutMemoized
<1> QED
    BY MemoInit, MemoStep, <1>1, PTL DEF Spec

(* However the framework orders its calls, one SMB object fetches the     *)
(* host's network inventory at most once, and exactly when its validated  *)
(* Config has cluster public addresses (validate, lines 451-453).          *)
THEOREM NetworksLoadedOnDemandHolds == Spec => []NetworksLoadedOnDemand
<1>1. MemoInv => NetworksLoadedOnDemand
    BY DEF MemoInv, NetworksLoadedOnDemand
<1> QED
    BY MemoInit, MemoStep, <1>1, PTL DEF Spec

(***************************************************************************)
(* The layout rules for the Configs the object works with.                *)
(***************************************************************************)
(* The three rules of the layout SMB._layout builds (lines 510-540): the   *)
(* order of spec 4.4, CTDB words only beside a running ctdbd, and a        *)
(* published port for a running metrics sidecar.                          *)
LayoutRules(c) ==
    LayoutOrder(c) /\ CtdbDependenciesMet(c) /\ MetricsPortPublished(c)

(* Every Config validate() returns (lines 416-475), for any well-shaped    *)
(* raw config and rank, gets a layout that obeys the three rules: what    *)
(* MCSmbLayout checks of the Configs of its raw-config space, for all raw *)
(* configs.                                                                *)
THEOREM ValidatedLayoutRules ==
    ASSUME NEW r, NEW ri, RawOK(r), ri \in Int \X Int, ParseConfig(r, ri).ok
    PROVE  LayoutRules(ParseConfig(r, ri).cfg)
<1>1. ConfigOK(ParseConfig(r, ri).cfg)
    BY ParseOk
<1> QED
    BY <1>1, LayoutOrderHolds, CtdbDependenciesMetHolds, MetricsPortPublishedHolds
       DEF LayoutRules

(* In every state the framework can drive the object into, the memoized   *)
(* Config, whose layout _layout() serves (LayoutMemoized), obeys the      *)
(* three layout rules, whatever the order of calls, failures and          *)
(* redeploys.                                                              *)
THEOREM ServedLayoutRules == Spec => [](instCfg # None => LayoutRules(instCfg))
<1>1. TypeOK => (instCfg # None => LayoutRules(instCfg))
    BY LayoutOrderHolds, CtdbDependenciesMetHolds, MetricsPortPublishedHolds
       DEF TypeOK, LayoutRules
<1> QED
    BY <1>1, TypeCorrect, PTL

====
