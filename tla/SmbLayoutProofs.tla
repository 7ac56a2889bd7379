--------------------------- MODULE SmbLayoutProofs ---------------------------
(***************************************************************************)
(* Proofs about the role catalog and SMB._layout (SmbContainers) for every *)
(* well-typed Config: which roles a layout holds, what arguments each role *)
(* passes, and the layout properties MCSmbLayout checks on the Configs     *)
(* that validate() builds from its raw-config space.                       *)
(***************************************************************************)
EXTENDS SmbContainers, SequenceTheorems, TLAPS

(* A function on 1..n is a sequence.                                      *)
LEMMA FunIsSeq ==
    ASSUME NEW S, NEW s, NEW n \in Nat, s \in [1..n -> S]
    PROVE  s \in Seq(S)
OBVIOUS

(* Indexing into a concatenation.                                          *)
LEMMA ConcatIndex ==
    ASSUME NEW S, NEW s1 \in Seq(S), NEW s2 \in Seq(S)
    PROVE  /\ s1 \o s2 \in Seq(S)
           /\ \A i \in 1..Len(s1) : i \in 1..Len(s1 \o s2) /\ (s1 \o s2)[i] = s1[i]
           /\ \A j \in 1..Len(s2) : Len(s1) + j \in 1..Len(s1 \o s2)
                                    /\ (s1 \o s2)[Len(s1) + j] = s2[j]
BY ConcatProperties

(***************************************************************************)
(* The arguments of the role classes (lines 169-346): a word, or a        *)
(* --flag=value whose flag names no container path, except ctdb-migrate's *)
(* --dest-dir and --archive (lines 284-289).                               *)
(***************************************************************************)
ArgWords == {"run", "smbd", "winbindd", "init", "must-join", "update-config",
             "--watch", "ctdb-migrate", "ctdb-must-have-node",
             "--take-node-number-from-env", "ctdbd", "--debug",
             "ctdb-monitor-nodes"}
ArgFlags == {"--samba-debug-level", "--debug-delay", "--setup", "--wait-for",
             "--skip-if", "-j", "--hostname", "--reload", "--port"}
ArgValues(cfg) ==
    {ToString(cfg.samba_debug_level), ToString(cfg.debug_delay),
     ToString(cfg.metrics_port), cfg.identity, "nsswitch", "users", "smb_ctdb",
     "ctdb", "ctdb_config", "ctdb_etc", "all", "env:NODE_NUMBER!=0"}
    \cup {cfg.join_sources[i] : i \in 1..Len(cfg.join_sources)}
PlainArgs(cfg) ==
    {Word(w) : w \in ArgWords} \cup {Opt(f, v) : f \in ArgFlags, v \in ArgValues(cfg)}
MigratePaths ==
    {Opt("--dest-dir", <<"var", "lib", "ctdb", "persistent">>),
     Opt("--archive", <<"var", "lib", "samba", ".migrated">>)}

(* The roles SMB._layout (lines 510-540) can put in the layout of cfg:     *)
(* the ctdb roles only for a clustered Config.                             *)
CtdbRoles == {"ctdbMigrate", "ctdbMustHaveNode", "ctdbd", "ctdbNodes"}
LayoutRoles(cfg) == IF cfg.clustered THEN Roles ELSE Roles \ CtdbRoles

(* What a role of the layout may pass: a CTDB word only when clustered,   *)
(* and the migration paths only as ctdb-migrate.                           *)
ArgSet(r, cfg) ==
    (IF cfg.clustered THEN PlainArgs(cfg) ELSE PlainArgs(cfg) \ CtdbWords)
    \cup (IF r = "ctdbMigrate" THEN MigratePaths ELSE {})

(* The entries SMB._layout puts in its lists: a role built with the       *)
(* default image, or the metrics sidecar with the configured image when   *)
(* one and a port are configured (lines 529-535).                          *)
MetricsCtr(cfg) == [name |-> "smbmetrics", image |-> Strip(cfg.metrics_image)]
LayoutCtrs(cfg) ==
    {Ctr(r) : r \in LayoutRoles(cfg) \ {"smbmetrics"}}
    \cup (IF MetricsWanted(cfg) THEN {MetricsCtr(cfg)} ELSE {})

(* The args() of a role of the layout (lines 169-346) stay within what    *)
(* that role may pass.                                                     *)
LEMMA ArgsOfRole ==
    ASSUME NEW cfg, ConfigOK(cfg), NEW r \in LayoutRoles(cfg)
    PROVE  Args(r, cfg) \in Seq(ArgSet(r, cfg))
<1> DEFINE S == ArgSet(r, cfg)
<1>1. \A w \in ArgWords : cfg.clustered \/ Word(w) \notin CtdbWords => Word(w) \in S
    BY DEF ArgSet, PlainArgs
<1>2. \A f \in ArgFlags, v \in ArgValues(cfg) :
          cfg.clustered \/ Opt(f, v) \notin CtdbWords => Opt(f, v) \in S
    BY DEF ArgSet, PlainArgs
<1>3. \A x \in S : <<x>> \in Seq(S)
    OBVIOUS
<1>4. <<>> \in Seq(S)
    OBVIOUS
<1>5. CommonArgs(cfg) \in Seq(S)
    <2>1. Opt("--samba-debug-level", ToString(cfg.samba_debug_level)) \in S
          /\ Opt("--debug-delay", ToString(cfg.debug_delay)) \in S
        BY <1>2 DEF ArgFlags, ArgValues, CtdbWords, SkipIfNotNodeZero, Word, Opt
    <2> QED
        BY <2>1, <1>3, <1>4, ConcatProperties DEF CommonArgs
<1>6. CASE r = "smbmetrics"
    <2>1. Opt("--port", ToString(cfg.metrics_port)) \in S
        BY <1>2 DEF ArgFlags, ArgValues, CtdbWords, SkipIfNotNodeZero, Word, Opt
    <2> QED
        BY <1>6, <2>1, <1>3, <1>4 DEF Args
<1>7. CASE r # "smbmetrics"
    <2> SUFFICES RoleArgs(r, cfg) \in Seq(S)
        BY <1>5, <1>7, ConcatProperties DEF Args
    <2>1. /\ Word("init") \in S /\ Word("update-config") \in S /\ Word("--watch") \in S
          /\ Word("ctdb-must-have-node") \in S /\ Word("run") \in S
          /\ Word("ctdbd") \in S /\ Word("--debug") \in S
          /\ Word("ctdb-monitor-nodes") \in S /\ Word("ctdb-migrate") \in S
          /\ Word("smbd") \in S /\ Word("winbindd") \in S /\ Word("must-join") \in S
        BY <1>1 DEF ArgWords, CtdbWords, SkipIfNotNodeZero, Word, Opt
    <2>2. /\ Opt("--setup", "nsswitch") \in S /\ Opt("--setup", "users") \in S
          /\ Opt("--setup", "ctdb_config") \in S /\ Opt("--setup", "ctdb_etc") \in S
          /\ Opt("--hostname", cfg.identity) \in S /\ Opt("--reload", "all") \in S
        BY <1>2 DEF ArgFlags, ArgValues, CtdbWords, SkipIfNotNodeZero, Word, Opt
    <2>3. cfg.clustered =>
              /\ Opt("--setup", "smb_ctdb") \in S /\ Opt("--wait-for", "ctdb") \in S
              /\ SkipIfNotNodeZero \in S /\ Word("--take-node-number-from-env") \in S
        BY <1>1, <1>2 DEF ArgFlags, ArgValues, ArgWords, SkipIfNotNodeZero
    <2>4. r \in CtdbRoles => cfg.clustered
        BY DEF LayoutRoles
    <2>5. CASE r = "smbd"
        <3>1. (IF cfg.clustered
                 THEN <<Opt("--setup", IF cfg.domain_member THEN "nsswitch" ELSE "users"),
                        Opt("--setup", "smb_ctdb"), Opt("--wait-for", "ctdb")>>
                 ELSE <<>>) \in Seq(S)
            BY <2>2, <2>3, <1>4
        <3> QED
            BY <2>5, <3>1, <2>1, <1>3, ConcatProperties DEF RoleArgs
    <2>6. CASE r = "winbindd"
        <3>0. cfg.clustered =>
                  <<Opt("--setup", "smb_ctdb"), Opt("--wait-for", "ctdb")>> \in Seq(S)
            BY <2>3
        <3>1. (IF cfg.clustered
                 THEN <<Opt("--setup", "smb_ctdb"), Opt("--wait-for", "ctdb")>>
                 ELSE <<>>) \in Seq(S)
            BY <3>0, <1>4
        <3> QED
            BY <2>6, <3>1, <2>1, <1>3, ConcatProperties DEF RoleArgs
    <2>7. CASE r = "mustjoin"
        <3> DEFINE js == cfg.join_sources
                   J == [i \in 1..Len(js) |-> Opt("-j", js[i])]
        <3>1. (IF cfg.clustered THEN <<SkipIfNotNodeZero>> ELSE <<>>) \in Seq(S)
            BY <2>3, <1>3, <1>4
        <3>2. <<Word("must-join")>> \in Seq(S)
            BY <2>1, <1>3
        <3>3. Len(js) \in Nat
            BY DEF ConfigOK
        <3>4. \A i \in 1..Len(js) : Opt("-j", js[i]) \in S
            BY <1>2 DEF ArgFlags, ArgValues, CtdbWords, SkipIfNotNodeZero, Word, Opt
        <3>5. J \in [1..Len(js) -> S]
            BY <3>4
        <3>6. J \in Seq(S)
            BY <3>3, <3>5, FunIsSeq
        <3> QED
            BY <2>7, <3>1, <3>2, <3>6, ConcatProperties DEF RoleArgs
    <2>8. CASE r = "config"
        BY <2>8, <2>1 DEF RoleArgs
    <2>9. CASE r = "configwatch"
        BY <2>9, <2>1 DEF RoleArgs
    <2>10. CASE r = "ctdbMustHaveNode"
        BY <2>10, <2>1, <2>2, <2>3, <2>4 DEF RoleArgs, CtdbRoles
    <2>11. CASE r = "ctdbd"
        BY <2>11, <2>1, <2>2, <2>3, <2>4 DEF RoleArgs, CtdbRoles
    <2>12. CASE r = "ctdbNodes"
        BY <2>12, <2>1, <2>2, <2>3, <2>4 DEF RoleArgs, CtdbRoles
    <2>13. CASE r = "ctdbMigrate"
        <3>1. cfg.clustered
            BY <2>13, <2>4 DEF CtdbRoles
        <3>2. MigratePaths \subseteq S
            BY <2>13 DEF ArgSet
        <3> QED
            BY <2>13, <2>1, <2>3, <3>1, <3>2 DEF RoleArgs, MigratePaths
    <2>14. r \in Roles
        BY DEF LayoutRoles
    <2> QED
        BY <1>7, <2>14, <2>5, <2>6, <2>7, <2>8, <2>9, <2>10, <2>11, <2>12, <2>13
           DEF Roles, InitRoles, SidecarRoles
<1> QED
    BY <1>6, <1>7

(* SMB._layout (lines 510-540) only lists entries of LayoutCtrs, and an   *)
(* entry named smbmetrics is the metrics sidecar, listed only when wanted.*)
LEMMA LayoutEntries ==
    ASSUME NEW cfg
    PROVE  /\ BuildLayout(cfg).init_containers \in Seq(LayoutCtrs(cfg))
           /\ BuildLayout(cfg).supplemental \in Seq(LayoutCtrs(cfg))
           /\ \A c \in LayoutCtrs(cfg) :
                 /\ c.name \in LayoutRoles(cfg)
                 /\ c.name = "smbmetrics" => MetricsWanted(cfg) /\ c = MetricsCtr(cfg)
<1> DEFINE C == LayoutCtrs(cfg)
<1>1. \A r \in LayoutRoles(cfg) \ {"smbmetrics"} : <<Ctr(r)>> \in Seq(C)
    BY DEF LayoutCtrs
<1>2. /\ {"config", "mustjoin", "configwatch", "winbindd"} \subseteq LayoutRoles(cfg) \ {"smbmetrics"}
      /\ cfg.clustered => CtdbRoles \subseteq LayoutRoles(cfg) \ {"smbmetrics"}
    BY DEF LayoutRoles, CtdbRoles, Roles, InitRoles, SidecarRoles
<1>3. /\ <<Ctr("config")>> \in Seq(C) /\ <<Ctr("configwatch")>> \in Seq(C)
      /\ <<Ctr("mustjoin")>> \in Seq(C) /\ <<Ctr("winbindd")>> \in Seq(C)
      /\ <<>> \in Seq(C)
    BY <1>1, <1>2
<1>4. cfg.clustered =>
          /\ <<Ctr("ctdbMigrate"), Ctr("ctdbMustHaveNode")>> \in Seq(C)
          /\ <<Ctr("ctdbd"), Ctr("ctdbNodes")>> \in Seq(C)
    <2> SUFFICES ASSUME cfg.clustered
                 PROVE  /\ <<Ctr("ctdbMigrate"), Ctr("ctdbMustHaveNode")>> \in Seq(C)
                        /\ <<Ctr("ctdbd"), Ctr("ctdbNodes")>> \in Seq(C)
        OBVIOUS
    <2>1. /\ Ctr("ctdbMigrate") \in C /\ Ctr("ctdbMustHaveNode") \in C
          /\ Ctr("ctdbd") \in C /\ Ctr("ctdbNodes") \in C
        BY <1>2 DEF LayoutCtrs, CtdbRoles
    <2> QED
        BY <2>1
<1>5. MetricsWanted(cfg) => <<MetricsCtr(cfg)>> \in Seq(C)
    BY DEF LayoutCtrs
<1>6. /\ (IF cfg.domain_member THEN <<Ctr("mustjoin")>> ELSE <<>>) \in Seq(C)
      /\ (IF cfg.clustered THEN <<Ctr("ctdbMigrate"), Ctr("ctdbMustHaveNode")>>
                           ELSE <<>>) \in Seq(C)
      /\ (IF cfg.domain_member THEN <<Ctr("winbindd")>> ELSE <<>>) \in Seq(C)
      /\ (IF MetricsWanted(cfg)
             THEN <<[name |-> "smbmetrics", image |-> Strip(cfg.metrics_image)]>>
             ELSE <<>>) \in Seq(C)
      /\ (IF cfg.clustered THEN <<Ctr("ctdbd"), Ctr("ctdbNodes")>> ELSE <<>>) \in Seq(C)
    BY <1>3, <1>4, <1>5 DEF MetricsCtr
<1>7. \A c \in C : c.name \in LayoutRoles(cfg)
    <2>1. "smbmetrics" \in LayoutRoles(cfg)
        BY DEF LayoutRoles, CtdbRoles, Roles, SidecarRoles
    <2> QED
        BY <2>1 DEF LayoutCtrs, Ctr, MetricsCtr
<1>8. \A c \in C : c.name = "smbmetrics" => MetricsWanted(cfg) /\ c = MetricsCtr(cfg)
    BY DEF LayoutCtrs, Ctr
<1> QED
    BY <1>3, <1>6, <1>7, <1>8, ConcatProperties DEF BuildLayout

(* Every container spec of the layout of cfg runs the args() and envs() of *)
(* a role the layout can hold, with the bind mounts of cfg (510-601).      *)
LEMMA SpecsOfLayout ==
    ASSUME NEW cfg, NEW s \in AllSpecs(BuildLayout(cfg), cfg)
    PROVE  \E r \in LayoutRoles(cfg) :
               /\ s.args = Args(r, cfg) /\ s.envs = Envs(r, cfg)
               /\ s.volume_mounts = Mounts(cfg)
<1> DEFINE l == BuildLayout(cfg)
<1>1. /\ l.init_containers \in Seq(LayoutCtrs(cfg))
      /\ l.supplemental \in Seq(LayoutCtrs(cfg))
      /\ \A c \in LayoutCtrs(cfg) : c.name \in LayoutRoles(cfg)
    BY LayoutEntries
<1>2. "smbd" \in LayoutRoles(cfg)
    BY DEF LayoutRoles, CtdbRoles, Roles
<1>3. CASE \E i \in 1..Len(l.init_containers) :
               s = InitContainerSpec(l.init_containers[i], cfg)
    BY <1>1, <1>3 DEF InitContainerSpec
<1>4. CASE \E i \in 1..Len(l.supplemental) :
               s = SidecarContainerSpec(l.supplemental[i], cfg)
    BY <1>1, <1>4 DEF SidecarContainerSpec
<1>5. CASE s = PrimarySpec(cfg)
    BY <1>2, <1>5 DEF PrimarySpec
<1> QED
    BY <1>3, <1>4, <1>5 DEF AllSpecs

(* A non-clustered instance passes no container a CTDB word, and a        *)
(* clustered one runs ctdbd as a sidecar (args(), lines 169-346; the       *)
(* layout, lines 528-536), for every well-typed Config.                     *)
THEOREM CtdbDependenciesMetHolds ==
    ASSUME NEW cfg, ConfigOK(cfg)
    PROVE  CtdbDependenciesMet(cfg)
<1> DEFINE l == BuildLayout(cfg)
<1>1. CASE cfg.clustered
    <2> DEFINE S == {Ctr(r) : r \in Roles} \cup {MetricsCtr(cfg)}
               X == <<Ctr("configwatch")>>
                    \o (IF cfg.domain_member THEN <<Ctr("winbindd")>> ELSE <<>>)
                    \o (IF MetricsWanted(cfg)
                           THEN <<[name |-> "smbmetrics", image |-> Strip(cfg.metrics_image)]>>
                           ELSE <<>>)
               Y == <<Ctr("ctdbd"), Ctr("ctdbNodes")>>
    <2>1. l.supplemental = X \o Y
        BY <1>1 DEF BuildLayout
    <2>2. /\ <<Ctr("configwatch")>> \in Seq(S)
          /\ (IF cfg.domain_member THEN <<Ctr("winbindd")>> ELSE <<>>) \in Seq(S)
          /\ (IF MetricsWanted(cfg)
                 THEN <<[name |-> "smbmetrics", image |-> Strip(cfg.metrics_image)]>>
                 ELSE <<>>) \in Seq(S)
          /\ Y \in Seq(S)
        <3>1. {"configwatch", "winbindd", "ctdbd", "ctdbNodes"} \subseteq Roles
            BY DEF Roles, InitRoles, SidecarRoles
        <3>2. [name |-> "smbmetrics", image |-> Strip(cfg.metrics_image)] \in S
            BY DEF MetricsCtr
        <3>3. <<Ctr("configwatch")>> \in Seq(S)
            BY <3>1
        <3>4. (IF cfg.domain_member THEN <<Ctr("winbindd")>> ELSE <<>>) \in Seq(S)
            <4>1. <<Ctr("winbindd")>> \in Seq(S)
                BY <3>1
            <4> QED
                BY <4>1, EmptySeq
        <3>5. (IF MetricsWanted(cfg)
                 THEN <<[name |-> "smbmetrics", image |-> Strip(cfg.metrics_image)]>>
                 ELSE <<>>) \in Seq(S)
            <4>1. <<[name |-> "smbmetrics", image |-> Strip(cfg.metrics_image)]>> \in Seq(S)
                BY <3>2
            <4> QED
                BY <4>1, EmptySeq
        <3>6. Y \in Seq(S)
            BY <3>1
        <3> QED
            BY <3>3, <3>4, <3>5, <3>6
    <2>3. X \in Seq(S)
        BY <2>2, ConcatProperties
    <2>4. 1 \in 1..Len(Y) /\ Y[1] = Ctr("ctdbd")
        OBVIOUS
    <2>5. Len(X) + 1 \in 1..Len(X \o Y) /\ (X \o Y)[Len(X) + 1] = Ctr("ctdbd")
        BY <2>2, <2>3, <2>4, ConcatIndex
    <2>6. \E i \in 1..Len(l.supplemental) : l.supplemental[i].name = "ctdbd"
        <3>1. Ctr("ctdbd").name = "ctdbd"
            BY DEF Ctr
        <3> QED
            BY <2>1, <2>5, <3>1
    <2> QED
        BY <1>1, <2>6 DEF CtdbDependenciesMet
<1>2. CASE ~cfg.clustered
    <2> SUFFICES ASSUME NEW s \in AllSpecs(l, cfg), NEW i \in 1..Len(s.args),
                        s.args[i] \in CtdbWords
                 PROVE  FALSE
        BY DEF CtdbDependenciesMet
    <2>1. PICK r \in LayoutRoles(cfg) : s.args = Args(r, cfg)
        BY SpecsOfLayout
    <2>2. Args(r, cfg) \in Seq(ArgSet(r, cfg))
        BY ArgsOfRole
    <2>3. s.args[i] \in ArgSet(r, cfg)
        BY <2>1, <2>2, ElementOfSeq
    <2>4. r # "ctdbMigrate"
        BY <1>2 DEF LayoutRoles, CtdbRoles
    <2> QED
        BY <1>2, <2>3, <2>4 DEF ArgSet
<1> QED
    BY <1>1, <1>2

(* Whenever the smbmetrics sidecar runs, it listens on the metrics port   *)
(* (lines 269-273), the primary publishes that port (lines 211-213), the   *)
(* sidecar shares the primary's network namespace (lines 571-585) and it  *)
(* runs the configured image (lines 529-535), for every well-typed Config.*)
THEOREM MetricsPortPublishedHolds ==
    ASSUME NEW cfg, ConfigOK(cfg)
    PROVE  MetricsPortPublished(cfg)
<1> DEFINE l == BuildLayout(cfg)
<1> SUFFICES ASSUME NEW i \in 1..Len(l.supplemental),
                    l.supplemental[i].name = "smbmetrics"
             PROVE  LET sc == SidecarContainerSpec(l.supplemental[i], cfg)
                        pa == ContainerArgs("smbd", cfg)
                    IN  /\ sc.args = <<Opt("--port", ToString(cfg.metrics_port))>>
                        /\ \E j \in 1..Len(pa) : pa[j] = Publish(cfg.metrics_port)
                        /\ "network" \in sc.shared_ns
                        /\ sc.image = Strip(cfg.metrics_image)
    BY DEF MetricsPortPublished
<1>1. l.supplemental[i] \in LayoutCtrs(cfg)
    BY LayoutEntries, ElementOfSeq
<1>2. MetricsWanted(cfg) /\ l.supplemental[i] = MetricsCtr(cfg)
    BY <1>1, LayoutEntries
<1>3. cfg.metrics_port > 0 /\ Truthy(Strip(cfg.metrics_image))
    BY <1>2 DEF MetricsWanted
<1>4. SidecarContainerSpec(l.supplemental[i], cfg).args
          = <<Opt("--port", ToString(cfg.metrics_port))>>
    BY <1>2, <1>3 DEF SidecarContainerSpec, MetricsCtr, Args
<1>5. SidecarContainerSpec(l.supplemental[i], cfg).image = Strip(cfg.metrics_image)
    BY <1>2, <1>3 DEF SidecarContainerSpec, MetricsCtr
<1>6. "network" \in SidecarContainerSpec(l.supplemental[i], cfg).shared_ns
    BY DEF SidecarContainerSpec, SharedNamespaces
<1>7. \E j \in 1..Len(ContainerArgs("smbd", cfg)) :
          ContainerArgs("smbd", cfg)[j] = Publish(cfg.metrics_port)
    <2> DEFINE dns == cfg.custom_dns
               S == {Publish(cfg.smb_port), Publish(cfg.metrics_port),
                     Opt("--hostname", cfg.vhostname)}
                    \cup {Opt("--dns", dns[k]) : k \in 1..Len(dns)}
               A == IF cfg.smb_port # 0 THEN <<Publish(cfg.smb_port)>> ELSE <<>>
               B == <<Publish(cfg.metrics_port)>>
               D == DnsArgs(cfg)
    <2>1. ContainerArgs("smbd", cfg) = (A \o B) \o D
        <3>1. ContainerArgs("smbd", cfg)
                = A \o (IF cfg.metrics_port # 0 THEN <<Publish(cfg.metrics_port)>>
                                              ELSE <<>>) \o D
            BY Zenon DEF ContainerArgs
        <3>2. cfg.metrics_port # 0
            BY <1>3 DEF ConfigOK
        <3> QED
            BY <3>1, <3>2
    <2>2. A \in Seq(S) /\ B \in Seq(S)
        <3>1. <<Publish(cfg.smb_port)>> \in Seq(S) /\ B \in Seq(S)
            OBVIOUS
        <3> QED
            BY <3>1, EmptySeq
    <2>3. D \in Seq(S)
        <3>1. Len(dns) \in Nat
            <4>1. dns \in Seq(STRING)
                BY DEF ConfigOK
            <4> QED
                BY <4>1, LenProperties
        <3>2. [k \in 1..Len(dns) |-> Opt("--dns", dns[k])] \in Seq(S)
            BY <3>1, FunIsSeq
        <3>3. (IF cfg.vhostname # Empty THEN <<Opt("--hostname", cfg.vhostname)>>
                                        ELSE <<>>) \in Seq(S)
            <4>1. <<Opt("--hostname", cfg.vhostname)>> \in Seq(S)
                OBVIOUS
            <4> QED
                BY <4>1, EmptySeq
        <3>4. D = [k \in 1..Len(dns) |-> Opt("--dns", dns[k])]
                  \o (IF cfg.vhostname # Empty THEN <<Opt("--hostname", cfg.vhostname)>>
                                               ELSE <<>>)
            BY DEF DnsArgs
        <3> QED
            BY <3>2, <3>3, <3>4, ConcatProperties
    <2>4. Len(A) + 1 \in 1..Len(A \o B) /\ (A \o B)[Len(A) + 1] = Publish(cfg.metrics_port)
        <3>1. 1 \in 1..Len(B) /\ B[1] = Publish(cfg.metrics_port)
            OBVIOUS
        <3> QED
            BY <2>2, <3>1, ConcatIndex
    <2>5. A \o B \in Seq(S)
        BY <2>2, ConcatProperties
    <2>6. /\ Len(A) + 1 \in 1..Len((A \o B) \o D)
          /\ ((A \o B) \o D)[Len(A) + 1] = Publish(cfg.metrics_port)
        BY <2>3, <2>4, <2>5, ConcatIndex
    <2> QED
        BY <2>1, <2>6
<1> QED
    BY <1>4, <1>5, <1>6, <1>7

(***************************************************************************)
(* The order of SMB._layout (lines 510-540), by index.                    *)
(***************************************************************************)
(* The roles other than smbmetrics, as the layout holds them.             *)
PlainCtrs == {Ctr(r) : r \in Roles \ {"smbmetrics"}}

(* The names of a sequence of containers, position by position.           *)
LEMMA NamesOf ==
    ASSUME NEW S, NEW cs \in Seq(S)
    PROVE  /\ Names(cs) \in Seq({c.name : c \in S})
           /\ Len(Names(cs)) = Len(cs)
           /\ \A i \in 1..Len(cs) : Names(cs)[i] = cs[i].name
<1>1. Len(cs) \in Nat /\ \A i \in 1..Len(cs) : cs[i] \in S
    BY LenProperties, ElementOfSeq
<1>2. Names(cs) \in Seq({c.name : c \in S})
    BY <1>1, FunIsSeq DEF Names
<1>3. DOMAIN Names(cs) = 1..Len(cs) /\ DOMAIN Names(cs) = 1..Len(Names(cs))
    BY <1>2, LenProperties DEF Names
<1>4. Len(Names(cs)) = Len(cs)
    BY <1>1, <1>2, <1>3, LenProperties
<1> QED
    BY <1>2, <1>4 DEF Names

(* The last two entries of a sequence, taken with SubSeq, are a given     *)
(* pair exactly when its last two elements are.                            *)
LEMMA LastPair ==
    ASSUME NEW S, NEW s \in Seq(S), Len(s) >= 2, NEW a, NEW b
    PROVE  SubSeq(s, Len(s) - 1, Len(s)) = <<a, b>> <=> s[Len(s) - 1] = a /\ s[Len(s)] = b
<1> DEFINE t == SubSeq(s, Len(s) - 1, Len(s))
<1>1. /\ t \in Seq(S)
      /\ Len(t) = 2
      /\ t[1] = s[Len(s) - 1] /\ t[2] = s[Len(s)]
    <2>1. \A i \in Len(s) - 1 .. Len(s) : s[i] \in S
        BY ElementOfSeq
    <2>2. /\ SubSeq(s, Len(s) - 1, Len(s)) \in Seq(S)
          /\ Len(SubSeq(s, Len(s) - 1, Len(s)))
                = IF Len(s) - 1 <= Len(s) THEN Len(s) - (Len(s) - 1) + 1 ELSE 0
          /\ \A i \in 1 .. Len(s) - (Len(s) - 1) + 1 :
                SubSeq(s, Len(s) - 1, Len(s))[i] = s[Len(s) - 1 + i - 1]
        BY <2>1, SubSeqProperties
    <2> QED
        BY <2>2
<1>2. ASSUME s[Len(s) - 1] = a, s[Len(s)] = b PROVE t = <<a, b>>
    <2>1. <<a, b>> \in Seq(S) /\ Len(<<a, b>>) = 2
        BY <1>2, ElementOfSeq
    <2>2. \A i \in 1..Len(t) : t[i] = <<a, b>>[i]
        BY <1>1, <1>2
    <2>3. t \in Seq(S) /\ Len(t) = Len(<<a, b>>)
        BY <1>1, <2>1
    <2> QED
        BY <2>1, <2>2, <2>3, SeqEqual, Zenon
<1>3. t = <<a, b>> => s[Len(s) - 1] = a /\ s[Len(s)] = b
    <2> SUFFICES ASSUME t = <<a, b>> PROVE s[Len(s) - 1] = a /\ s[Len(s)] = b
        OBVIOUS
    <2>1. <<a, b>>[1] = a /\ <<a, b>>[2] = b
        OBVIOUS
    <2> QED
        BY <1>1, <2>1, Zenon
<1> QED
    BY <1>2, <1>3, Zenon

(* The init containers of a layout, by index (lines 528-534).             *)
LEMMA InitLayout ==
    ASSUME NEW cfg
    PROVE  LET s == BuildLayout(cfg).init_containers
               D == IF cfg.domain_member THEN 1 ELSE 0
           IN  /\ s \in Seq(PlainCtrs)
               /\ Len(s) = 1 + D + (IF cfg.clustered THEN 2 ELSE 0)
               /\ s[1] = Ctr("config")
               /\ cfg.domain_member => s[2] = Ctr("mustjoin")
               /\ cfg.clustered => /\ s[2 + D] = Ctr("ctdbMigrate")
                                   /\ s[3 + D] = Ctr("ctdbMustHaveNode")
<1> DEFINE D == IF cfg.domain_member THEN 1 ELSE 0
           P0 == <<Ctr("config")>>
           P1 == IF cfg.domain_member THEN <<Ctr("mustjoin")>> ELSE <<>>
           P2 == IF cfg.clustered THEN <<Ctr("ctdbMigrate"), Ctr("ctdbMustHaveNode")>>
                                  ELSE <<>>
<1>1. {Ctr("config"), Ctr("mustjoin"), Ctr("ctdbMigrate"), Ctr("ctdbMustHaveNode")}
          \subseteq PlainCtrs
    BY DEF PlainCtrs, Roles, InitRoles
<1>2. P0 \in Seq(PlainCtrs) /\ Len(P0) = 1 /\ P0[1] = Ctr("config")
    BY <1>1
<1>3. P1 \in Seq(PlainCtrs) /\ Len(P1) = D /\ (cfg.domain_member => P1[1] = Ctr("mustjoin"))
    <2>1. <<Ctr("mustjoin")>> \in Seq(PlainCtrs)
        BY <1>1
    <2> QED
        BY <2>1, EmptySeq
<1>4. /\ P2 \in Seq(PlainCtrs)
      /\ Len(P2) = IF cfg.clustered THEN 2 ELSE 0
      /\ cfg.clustered => P2[1] = Ctr("ctdbMigrate") /\ P2[2] = Ctr("ctdbMustHaveNode")
    <2>1. <<Ctr("ctdbMigrate"), Ctr("ctdbMustHaveNode")>> \in Seq(PlainCtrs)
        BY <1>1
    <2> QED
        BY <2>1, EmptySeq
<1>5. BuildLayout(cfg).init_containers = (P0 \o P1) \o P2
    BY DEF BuildLayout
<1>6. /\ P0 \o P1 \in Seq(PlainCtrs)
      /\ Len(P0 \o P1) = 1 + D
      /\ (P0 \o P1)[1] = Ctr("config")
      /\ cfg.domain_member => (P0 \o P1)[2] = Ctr("mustjoin")
    <2>1. /\ P0 \o P1 \in Seq(PlainCtrs)
          /\ Len(P0 \o P1) = Len(P0) + Len(P1)
          /\ \A i \in 1 .. Len(P0) + Len(P1) :
                (P0 \o P1)[i] = IF i <= Len(P0) THEN P0[i] ELSE P1[i - Len(P0)]
        BY <1>2, <1>3, ConcatProperties
    <2> QED
        BY <1>2, <1>3, <2>1
<1>7. /\ (P0 \o P1) \o P2 \in Seq(PlainCtrs)
      /\ Len((P0 \o P1) \o P2) = Len(P0 \o P1) + Len(P2)
      /\ \A i \in 1 .. Len(P0 \o P1) + Len(P2) :
            ((P0 \o P1) \o P2)[i] = IF i <= Len(P0 \o P1) THEN (P0 \o P1)[i]
                                                        ELSE P2[i - Len(P0 \o P1)]
    BY <1>4, <1>6, ConcatProperties
<1> QED
    BY <1>4, <1>5, <1>6, <1>7

(* The sidecars of a layout, by index (lines 529-536).                     *)
LEMMA SupLayout ==
    ASSUME NEW cfg
    PROVE  LET s == BuildLayout(cfg).supplemental
               D == IF cfg.domain_member THEN 1 ELSE 0
               W == IF MetricsWanted(cfg) THEN 1 ELSE 0
           IN  /\ s \in Seq(PlainCtrs \cup {MetricsCtr(cfg)})
               /\ ~MetricsWanted(cfg) => s \in Seq(PlainCtrs)
               /\ Len(s) = 1 + D + W + (IF cfg.clustered THEN 2 ELSE 0)
               /\ s[1] = Ctr("configwatch")
               /\ cfg.domain_member => s[2] = Ctr("winbindd")
               /\ MetricsWanted(cfg) => s[2 + D] = MetricsCtr(cfg)
               /\ cfg.clustered => /\ s[2 + D + W] = Ctr("ctdbd")
                                   /\ s[3 + D + W] = Ctr("ctdbNodes")
<1> DEFINE D == IF cfg.domain_member THEN 1 ELSE 0
           W == IF MetricsWanted(cfg) THEN 1 ELSE 0
           U == PlainCtrs \cup {MetricsCtr(cfg)}
           Q0 == <<Ctr("configwatch")>>
           Q1 == IF cfg.domain_member THEN <<Ctr("winbindd")>> ELSE <<>>
           Q2 == IF MetricsWanted(cfg)
                    THEN <<[name |-> "smbmetrics", image |-> Strip(cfg.metrics_image)]>>
                    ELSE <<>>
           Q3 == IF cfg.clustered THEN <<Ctr("ctdbd"), Ctr("ctdbNodes")>> ELSE <<>>
<1>1. {Ctr("configwatch"), Ctr("winbindd"), Ctr("ctdbd"), Ctr("ctdbNodes")}
          \subseteq PlainCtrs
    BY DEF PlainCtrs, Roles, SidecarRoles
<1>2. Q0 \in Seq(PlainCtrs) /\ Len(Q0) = 1 /\ Q0[1] = Ctr("configwatch")
    BY <1>1
<1>3. Q1 \in Seq(PlainCtrs) /\ Len(Q1) = D /\ (cfg.domain_member => Q1[1] = Ctr("winbindd"))
    <2>1. <<Ctr("winbindd")>> \in Seq(PlainCtrs)
        BY <1>1
    <2> QED
        BY <2>1, EmptySeq
<1>4. /\ Q2 \in Seq(U) /\ Len(Q2) = W /\ (MetricsWanted(cfg) => Q2[1] = MetricsCtr(cfg))
      /\ ~MetricsWanted(cfg) => Q2 \in Seq(PlainCtrs)
    <2>1. <<MetricsCtr(cfg)>> \in Seq(U)
        OBVIOUS
    <2> QED
        BY <2>1, EmptySeq DEF MetricsCtr
<1>5. /\ Q3 \in Seq(PlainCtrs)
      /\ Len(Q3) = IF cfg.clustered THEN 2 ELSE 0
      /\ cfg.clustered => Q3[1] = Ctr("ctdbd") /\ Q3[2] = Ctr("ctdbNodes")
    <2>1. <<Ctr("ctdbd"), Ctr("ctdbNodes")>> \in Seq(PlainCtrs)
        BY <1>1
    <2> QED
        BY <2>1, EmptySeq
<1>6. /\ Q0 \in Seq(U) /\ Q1 \in Seq(U) /\ Q3 \in Seq(U)
    <2>1. PlainCtrs \subseteq U
        OBVIOUS
    <2> QED
        BY <1>2, <1>3, <1>5, <2>1, SeqMonotonic
<1>7. BuildLayout(cfg).supplemental = ((Q0 \o Q1) \o Q2) \o Q3
    BY DEF BuildLayout
<1>8. /\ Q0 \o Q1 \in Seq(PlainCtrs)
      /\ Q0 \o Q1 \in Seq(U)
      /\ Len(Q0 \o Q1) = 1 + D
      /\ (Q0 \o Q1)[1] = Ctr("configwatch")
      /\ cfg.domain_member => (Q0 \o Q1)[2] = Ctr("winbindd")
    <2>1. /\ Q0 \o Q1 \in Seq(PlainCtrs)
          /\ Len(Q0 \o Q1) = Len(Q0) + Len(Q1)
          /\ \A i \in 1 .. Len(Q0) + Len(Q1) :
                (Q0 \o Q1)[i] = IF i <= Len(Q0) THEN Q0[i] ELSE Q1[i - Len(Q0)]
        BY <1>2, <1>3, ConcatProperties
    <2>2. Q0 \o Q1 \in Seq(U)
        BY <1>6, ConcatProperties
    <2> QED
        BY <1>2, <1>3, <2>1, <2>2
<1>9. /\ (Q0 \o Q1) \o Q2 \in Seq(U)
      /\ ~MetricsWanted(cfg) => (Q0 \o Q1) \o Q2 \in Seq(PlainCtrs)
      /\ Len((Q0 \o Q1) \o Q2) = 1 + D + W
      /\ ((Q0 \o Q1) \o Q2)[1] = Ctr("configwatch")
      /\ cfg.domain_member => ((Q0 \o Q1) \o Q2)[2] = Ctr("winbindd")
      /\ MetricsWanted(cfg) => ((Q0 \o Q1) \o Q2)[2 + D] = MetricsCtr(cfg)
    <2>1. /\ (Q0 \o Q1) \o Q2 \in Seq(U)
          /\ Len((Q0 \o Q1) \o Q2) = Len(Q0 \o Q1) + Len(Q2)
          /\ \A i \in 1 .. Len(Q0 \o Q1) + Len(Q2) :
                ((Q0 \o Q1) \o Q2)[i] = IF i <= Len(Q0 \o Q1) THEN (Q0 \o Q1)[i]
                                                             ELSE Q2[i - Len(Q0 \o Q1)]
        BY <1>4, <1>8, ConcatProperties
    <2>2. ~MetricsWanted(cfg) => (Q0 \o Q1) \o Q2 \in Seq(PlainCtrs)
        BY <1>4, <1>8, ConcatProperties
    <2> QED
        BY <1>4, <1>8, <2>1, <2>2
<1>10. /\ ((Q0 \o Q1) \o Q2) \o Q3 \in Seq(U)
       /\ Len(((Q0 \o Q1) \o Q2) \o Q3) = Len((Q0 \o Q1) \o Q2) + Len(Q3)
       /\ \A i \in 1 .. Len((Q0 \o Q1) \o Q2) + Len(Q3) :
             (((Q0 \o Q1) \o Q2) \o Q3)[i]
                = IF i <= Len((Q0 \o Q1) \o Q2) THEN ((Q0 \o Q1) \o Q2)[i]
                                               ELSE Q3[i - Len((Q0 \o Q1) \o Q2)]
    BY <1>6, <1>9, ConcatProperties
<1>11. ~MetricsWanted(cfg) => ((Q0 \o Q1) \o Q2) \o Q3 \in Seq(PlainCtrs)
    BY <1>5, <1>9, ConcatProperties
<1> QED
    BY <1>5, <1>7, <1>9, <1>10, <1>11

(* SMB._layout (lines 510-540) puts the containers in the order of spec   *)
(* sections 4.4 and 8 for every well-typed Config: config-init first,     *)
(* must-join iff domain member, ctdb-migrate and ctdb-must-have-node last  *)
(* iff clustered; configwatch first, winbindd iff domain member,          *)
(* smbmetrics iff an image and a positive port are set, ctdbd and the     *)
(* node monitor last iff clustered.                                        *)
THEOREM LayoutOrderHolds ==
    ASSUME NEW cfg, ConfigOK(cfg)
    PROVE  LayoutOrder(cfg)
<1> DEFINE l == BuildLayout(cfg)
           I == l.init_containers
           P == l.supplemental
           ini == Names(I)
           sup == Names(P)
           D == IF cfg.domain_member THEN 1 ELSE 0
           W == IF MetricsWanted(cfg) THEN 1 ELSE 0
           U == PlainCtrs \cup {MetricsCtr(cfg)}
<1>0. cfg.domain_member \in BOOLEAN /\ cfg.clustered \in BOOLEAN
    BY DEF ConfigOK
<1>1. /\ I \in Seq(PlainCtrs)
      /\ Len(I) = 1 + D + (IF cfg.clustered THEN 2 ELSE 0)
      /\ I[1] = Ctr("config")
      /\ cfg.domain_member => I[2] = Ctr("mustjoin")
      /\ cfg.clustered => I[2 + D] = Ctr("ctdbMigrate") /\ I[3 + D] = Ctr("ctdbMustHaveNode")
    BY InitLayout
<1>2. /\ P \in Seq(U)
      /\ ~MetricsWanted(cfg) => P \in Seq(PlainCtrs)
      /\ Len(P) = 1 + D + W + (IF cfg.clustered THEN 2 ELSE 0)
      /\ P[1] = Ctr("configwatch")
      /\ cfg.domain_member => P[2] = Ctr("winbindd")
      /\ MetricsWanted(cfg) => P[2 + D] = MetricsCtr(cfg)
      /\ cfg.clustered => P[2 + D + W] = Ctr("ctdbd") /\ P[3 + D + W] = Ctr("ctdbNodes")
    BY SupLayout
<1>3. /\ ini \in Seq({c.name : c \in PlainCtrs})
      /\ Len(ini) = Len(I)
      /\ \A i \in 1..Len(I) : ini[i] = I[i].name
    BY <1>1, NamesOf
<1>4. /\ sup \in Seq({c.name : c \in U})
      /\ Len(sup) = Len(P)
      /\ \A i \in 1..Len(P) : sup[i] = P[i].name
    BY <1>2, NamesOf
<1>5. /\ \A r : Ctr(r).name = r
      /\ MetricsCtr(cfg).name = "smbmetrics"
      /\ \A c \in PlainCtrs : c.name # "smbmetrics"
    BY DEF Ctr, MetricsCtr, PlainCtrs
(* The names at the indices the two lemmas give.                         *)
<1>6. /\ ini[1] = "config"
      /\ cfg.domain_member => ini[2] = "mustjoin"
      /\ cfg.clustered => ini[2 + D] = "ctdbMigrate" /\ ini[3 + D] = "ctdbMustHaveNode"
    BY <1>0, <1>1, <1>3, <1>5
<1>7. /\ sup[1] = "configwatch"
      /\ cfg.domain_member => sup[2] = "winbindd"
      /\ MetricsWanted(cfg) => sup[2 + D] = "smbmetrics"
      /\ cfg.clustered => sup[2 + D + W] = "ctdbd" /\ sup[3 + D + W] = "ctdbNodes"
    BY <1>0, <1>2, <1>4, <1>5
<1>8. l.primary.name = "smbd"
    BY <1>5 DEF BuildLayout
<1>9. cfg.domain_member <=> Len(ini) > 1 /\ ini[2] = "mustjoin"
    <2>1. CASE ~cfg.domain_member /\ Len(ini) > 1
        <3>1. cfg.clustered
            BY <1>0, <1>1, <1>3, <2>1
        <3> QED
            BY <1>6, <2>1, <3>1
    <2> QED
        BY <1>0, <1>1, <1>3, <1>6, <2>1
<1>10. cfg.domain_member <=> Len(sup) > 1 /\ sup[2] = "winbindd"
    <2>1. CASE ~cfg.domain_member /\ Len(sup) > 1 /\ MetricsWanted(cfg)
        BY <1>7, <2>1
    <2>2. CASE ~cfg.domain_member /\ Len(sup) > 1 /\ ~MetricsWanted(cfg)
        <3>1. cfg.clustered
            BY <1>0, <1>2, <1>4, <2>2
        <3> QED
            BY <1>7, <2>2, <3>1
    <2> QED
        BY <1>0, <1>2, <1>4, <1>7, <2>1, <2>2
<1>11. cfg.clustered <=>
          Len(ini) >= 3 /\ SubSeq(ini, Len(ini) - 1, Len(ini)) = <<"ctdbMigrate", "ctdbMustHaveNode">>
    <2>1. CASE cfg.clustered
        <3>1. Len(ini) = 3 + D /\ Len(ini) >= 3
            BY <1>0, <1>1, <1>3, <2>1
        <3>2. ini[Len(ini) - 1] = "ctdbMigrate" /\ ini[Len(ini)] = "ctdbMustHaveNode"
            BY <1>6, <2>1, <3>1
        <3>3. SubSeq(ini, Len(ini) - 1, Len(ini)) = <<"ctdbMigrate", "ctdbMustHaveNode">>
                <=> ini[Len(ini) - 1] = "ctdbMigrate" /\ ini[Len(ini)] = "ctdbMustHaveNode"
            <4>1. ini \in Seq({c.name : c \in PlainCtrs}) /\ Len(ini) >= 2
                BY <1>3, <3>1
            <4> QED
                BY <4>1, LastPair
        <3> QED
            BY <2>1, <3>1, <3>2, <3>3
    <2>2. CASE ~cfg.clustered
        BY <1>0, <1>1, <1>3, <2>2
    <2> QED
        BY <2>1, <2>2
<1>12. cfg.clustered <=>
          Len(sup) >= 3 /\ SubSeq(sup, Len(sup) - 1, Len(sup)) = <<"ctdbd", "ctdbNodes">>
    <2>1. CASE cfg.clustered
        <3>1. Len(sup) = 3 + D + W /\ Len(sup) >= 3
            BY <1>0, <1>2, <1>4, <2>1
        <3>2. sup[Len(sup) - 1] = "ctdbd" /\ sup[Len(sup)] = "ctdbNodes"
            BY <1>7, <2>1, <3>1
        <3> QED
            BY <1>4, <2>1, <3>1, <3>2, LastPair
    <2>2. CASE ~cfg.clustered /\ Len(sup) >= 3
        <3>1. Len(sup) = 3 /\ cfg.domain_member /\ MetricsWanted(cfg)
            BY <1>0, <1>2, <1>4, <2>2
        <3>2. sup[Len(sup)] = "smbmetrics"
            BY <1>7, <3>1
        <3> QED
            BY <1>4, <2>2, <3>1, <3>2, LastPair
    <2> QED
        BY <2>1, <2>2
<1>13. (\E i \in 1..Len(sup) : sup[i] = "smbmetrics") <=> MetricsWanted(cfg)
    <2>1. CASE MetricsWanted(cfg)
        <3>1. 2 + D \in 1..Len(sup)
            BY <1>0, <1>2, <1>4, <2>1
        <3> QED
            BY <1>7, <2>1, <3>1
    <2>2. CASE ~MetricsWanted(cfg)
        <3>1. \A i \in 1..Len(P) : P[i] \in PlainCtrs
            BY <1>2, <2>2, ElementOfSeq
        <3> QED
            BY <1>4, <1>5, <2>2, <3>1
    <2> QED
        BY <2>1, <2>2
<1> QED
    BY <1>0, <1>1, <1>3, <1>6, <1>7, <1>8, <1>9, <1>10, <1>11, <1>12, <1>13
       DEF LayoutOrder, MetricsWanted

====
