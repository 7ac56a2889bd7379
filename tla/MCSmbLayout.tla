---------------------------- MODULE MCSmbLayout ----------------------------
(***************************************************************************)
(* Checks the pure role catalog and layout builder of SmbContainers over  *)
(* every validated Config the raw-config space below yields: each state   *)
(* holds one Config, and any Config may follow any other.                 *)
(***************************************************************************)
EXTENDS SmbContainers

CONSTANTS mvNone, mvNotANumber, mvMalformed

VARIABLE cfg

SourceUri == <<"rados:", "pool", "smb", "config.json">>
JoinUri == <<"rados:", "pool", "smb", "join.json">>
Img == [core |-> "quay.io/samba.org/samba-metrics", ws |-> FALSE]
PaddedImg == [core |-> "quay.io/samba.org/samba-metrics", ws |-> TRUE]
BlankImg == [core |-> "", ws |-> TRUE]
MCCtxImage == [core |-> "quay.io/samba.org/samba-server", ws |-> FALSE]

RawSpace ==
    [cluster_id : {"tank"}, config_uri : {SourceUri},
     join_sources : {<<>>, <<JoinUri>>}, user_sources : {<<>>},
     custom_dns : {<<>>, <<"192.168.76.1">>},
     features : SUBSET {"domain", "clustered"}, files : {<<>>},
     config_auth_entity : {"", "client.smb.config.tank"},
     virtual_hostname : {"", "smb-tank"},
     metrics_image : {NoImage, BlankImg, Img, PaddedImg},
     metrics_port : {-1, 0, 9922},
     cluster_meta_uri : {<<"rados:", "pool", "smb", "cluster.meta.json">>},
     cluster_lock_uri : {<<"rados:", "pool", "smb", "cluster.lock">>},
     cluster_public_addrs : {<<>>}]

Configs ==
    {ParseConfig(r, ri).cfg : r \in RawSpace, ri \in {<<-1, -1>>, <<0, 3>>, <<2, 5>>}}

Init == cfg \in Configs
Next == cfg' \in Configs
Spec == Init /\ [][Next]_cfg

InvLayoutOrder == LayoutOrder(cfg)
InvCtdbDependenciesMet == CtdbDependenciesMet(cfg)
InvMetricsPortPublished == MetricsPortPublished(cfg)

=============================================================================
