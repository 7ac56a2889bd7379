----------------------------- MODULE SmbConfig -----------------------------
(***************************************************************************)
(* The configuration model of the cephadm SMB daemon form                 *)
(* (src/cephadm/cephadmlib/daemons/smb.py): the Features enum, the         *)
(* ClusterPublicIP record, the frozen Config dataclass with its            *)
(* config_uris(), and SMB.validate(), which turns the raw key/value        *)
(* config handed to cephadm into a Config or raises.                       *)
(*                                                                         *)
(* Data is abstracted to what the properties tell apart.  Paths and URIs   *)
(* are sequences of path components, so that a container path can be       *)
(* matched against a bind mount without string surgery.  A raw container  *)
(* image is a record [core, ws]: its non-blank text and whether it is      *)
(* surrounded by whitespace, which is what str.strip() removes.  A missing *)
(* key of the raw config is modelled by the default configs.get() gives.   *)
(***************************************************************************)
EXTENDS Integers, Sequences

CONSTANTS
    None,          \* sentinel: an Optional[...] that is None
    FeatureTags,   \* the strings a raw "features" list may hold
    NotANumber,    \* a raw metrics_port that int() rejects with ValueError
    Malformed,     \* a cluster_public_addrs entry that is not {address, destinations}
    HostFqdn,      \* what socket.getfqdn() returns on this host
    DaemonName,    \* identity.daemon_name of the daemon being deployed
    SmbPort        \* SMB.smb_port, fixed by SMB.__init__

ASSUME ConstAssumption ==
    /\ SmbPort \in Nat \ {0}
    /\ {"domain", "clustered"} \subseteq FeatureTags

(* Features enum (lines 43-54): the tags Features.valid() accepts.         *)
ValidFeatures == {"domain", "clustered"}

(* The "" of a str-typed field.                                            *)
Empty == ""

(* str.strip() on a raw image and the truthiness of its result.            *)
Strip(img) == [core |-> img.core, ws |-> FALSE]
Truthy(img) == img.core # Empty \/ img.ws

NoImage == [core |-> Empty, ws |-> FALSE]

(* "" is a str (the provers do not evaluate string literals).             *)
ASSUME EmptyIsString == Empty \in STRING

(* The config file cephadm generates for a clustered instance, as the     *)
(* containers see it: /etc/samba/container/ctdb.json.                      *)
SambaContainerDir == <<"etc", "samba", "container">>
CtdbJsonName == "ctdb.json"
CtdbJsonUri == Append(SambaContainerDir, CtdbJsonName)

(* Config.config_uris() (lines 98-105).                                    *)
ConfigUris(cfg) ==
    <<cfg.source_config>> \o cfg.user_sources
        \o (IF cfg.clustered THEN <<CtdbJsonUri>> ELSE <<>>)

(* The feature tags of a raw config that Features.valid() rejects          *)
(* (lines 436-438); the error names all of them together.                  *)
InvalidFeatures(raw) == raw.features \ ValidFeatures

(* ClusterPublicIP.convert (lines 61-68) asserts every entry is a dict     *)
(* with a str address and a list of destinations.                          *)
PublicAddrsWellFormed(raw) ==
    \A i \in 1..Len(raw.cluster_public_addrs) :
        raw.cluster_public_addrs[i] # Malformed

Fail(e) == [ok |-> FALSE, err |-> e]

ImageType == [core : STRING, ws : BOOLEAN]
UriType == Seq(STRING)

(* The shape of a raw config, once configs.get() has supplied defaults.   *)
RawOK(r) ==
    /\ r.cluster_id \in STRING
    /\ r.config_uri \in UriType
    /\ r.features \subseteq FeatureTags
    /\ r.join_sources \in Seq(UriType)
    /\ r.user_sources \in Seq(UriType)
    /\ r.custom_dns \in Seq(STRING)
    /\ r.metrics_image \in ImageType
    /\ r.metrics_port \in Int \cup {NotANumber}
    /\ r.cluster_public_addrs \in Seq([address : STRING, destinations : Seq(STRING)] \cup {Malformed})

(* The fields of a Config that the layout, the mounts and the generated    *)
(* files branch on, with their types.                                      *)
ConfigOK(c) ==
    /\ c.domain_member \in BOOLEAN
    /\ c.clustered \in BOOLEAN
    /\ c.source_config \in UriType
    /\ c.join_sources \in Seq(UriType)
    /\ c.custom_dns \in Seq(STRING)
    /\ c.user_sources \in Seq(UriType)
    /\ c.metrics_image \in ImageType
    /\ c.metrics_port \in Int
    /\ c.rank \in Int
    /\ c.rank_generation \in Int
    /\ c.cluster_public_addrs \in Seq([address : STRING, destinations : Seq(STRING)])

(* The Config that validate() builds (lines 455-475) once every check has  *)
(* passed; samba_debug_level, debug_delay and ctdb_log_level are never     *)
(* read from the raw config, so they keep their dataclass defaults.        *)
MakeConfig(raw, rankInfo) ==
    [identity            |-> DaemonName,
     instance_id         |-> raw.cluster_id,
     source_config       |-> raw.config_uri,
     domain_member       |-> "domain" \in raw.features,
     clustered           |-> "clustered" \in raw.features,
     samba_debug_level   |-> 0,
     ctdb_log_level      |-> Empty,
     debug_delay         |-> 0,
     join_sources        |-> raw.join_sources,
     user_sources        |-> raw.user_sources,
     custom_dns          |-> raw.custom_dns,
     smb_port            |-> SmbPort,
     ceph_config_entity  |-> raw.config_auth_entity,
     vhostname           |-> IF raw.virtual_hostname # Empty
                                THEN raw.virtual_hostname
                                ELSE raw.cluster_id \o "-" \o HostFqdn,
     metrics_image       |-> raw.metrics_image,
     metrics_port        |-> raw.metrics_port,
     rank                |-> rankInfo[1],
     rank_generation     |-> rankInfo[2],
     cluster_meta_uri    |-> raw.cluster_meta_uri,
     cluster_lock_uri    |-> raw.cluster_lock_uri,
     cluster_public_addrs |-> raw.cluster_public_addrs]

(* Mutant: metrics_port taken from the raw config without int().         *)
ParseConfigNoIntCheck(raw, rankInfo) ==
    IF raw.cluster_id = Empty THEN Fail("invalid instance (cluster) id")
    ELSE IF raw.config_uri = <<>> THEN Fail("invalid configuration source uri")
    ELSE IF InvalidFeatures(raw) # {}
         THEN Fail(<<"invalid instance features", InvalidFeatures(raw)>>)
    ELSE IF ~PublicAddrsWellFormed(raw) THEN Fail("AssertionError")
    ELSE [ok |-> TRUE, cfg |-> MakeConfig(raw, rankInfo)]

(* The checks of SMB.validate() (lines 416-475) in the order the code      *)
(* makes them: int(metrics_port) raises before any field is checked.  The  *)
(* result is either [ok |-> FALSE, err |-> why] or [ok |-> TRUE, cfg].     *)
ParseConfig(raw, rankInfo) ==
    IF raw.metrics_port = NotANumber THEN Fail("ValueError")
    ELSE IF raw.cluster_id = Empty THEN Fail("invalid instance (cluster) id")
    ELSE IF raw.config_uri = <<>> THEN Fail("invalid configuration source uri")
    ELSE IF InvalidFeatures(raw) # {}
         THEN Fail(<<"invalid instance features", InvalidFeatures(raw)>>)
    ELSE IF ~PublicAddrsWellFormed(raw) THEN Fail("AssertionError")
    ELSE [ok |-> TRUE, cfg |-> MakeConfig(raw, rankInfo)]

=============================================================================
