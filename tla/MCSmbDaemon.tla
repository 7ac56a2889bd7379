---------------------------- MODULE MCSmbDaemon ----------------------------
(***************************************************************************)
(* Model-checking instance of SmbDaemon: the raw configs a deployment may *)
(* hand cephadm, enumerated over the fields that steer the control flow   *)
(* (features, metrics image and port, public addresses, files), plus one  *)
(* raw config per error path of validate().                                *)
(***************************************************************************)
EXTENDS SmbDaemon

CONSTANTS mvNone, mvNotANumber, mvMalformed, mvAbsent, mvDir, mvUserData

SourceUri == <<"rados:", "pool", "smb", "config.json">>
UsersUri == <<"rados:", "pool", "smb", "users.json">>
JoinUri == <<"rados:", "pool", "smb", "join.json">>
UserFile == <<"etc-samba-container", "extra.conf">>

Img == [core |-> "quay.io/samba.org/samba-metrics", ws |-> FALSE]
MCCtxImage == [core |-> "quay.io/samba.org/samba-server", ws |-> FALSE]
BlankImg == [core |-> "", ws |-> TRUE]

PublicIP == [address |-> "192.168.76.200/24",
             destinations |-> <<"net-a", "net-b", "net-c">>]

(* A raw config with the given values for the fields the model varies.    *)
MkRaw(id, uri, feats, mimg, mport, addrs, fs) ==
    [cluster_id |-> id, config_uri |-> uri,
     join_sources |-> <<JoinUri>>, user_sources |-> <<UsersUri>>,
     custom_dns |-> <<"192.168.76.1">>, features |-> feats, files |-> fs,
     config_auth_entity |-> "client.smb.config.tank",
     virtual_hostname |-> "",
     metrics_image |-> mimg, metrics_port |-> mport,
     cluster_meta_uri |-> <<"rados:", "pool", "smb", "cluster.meta.json">>,
     cluster_lock_uri |-> <<"rados:", "pool", "smb", "cluster.lock">>,
     cluster_public_addrs |-> addrs]

NoFiles == [p \in {} |-> mvUserData]

(* Features, metrics and public addresses in the combinations that steer  *)
(* prepare_data_dir and the network mapper, plus one raw config per error  *)
(* path of validate().                                                     *)
MCRawConfigs ==
    {MkRaw("tank", SourceUri, f, m[1], m[2], a, NoFiles) :
        f \in {{}, {"clustered"}, {"domain", "clustered"}},
        m \in {<<NoImage, 0>>, <<Img, 9922>>},
        a \in {<<>>, <<PublicIP>>}}
    \cup
    {MkRaw("tank", SourceUri, {"clustered"}, Img, 9922, <<PublicIP>>,
           UserFile :> mvUserData),
     MkRaw("tank", SourceUri, {}, NoImage, 0, <<>>, UserFile :> mvUserData),
     MkRaw("tank", SourceUri, {}, NoImage, mvNotANumber, <<>>, NoFiles),
     MkRaw("", SourceUri, {}, NoImage, 0, <<>>, NoFiles),
     MkRaw("tank", <<>>, {}, NoImage, 0, <<>>, NoFiles),
     MkRaw("tank", SourceUri, {"clustered", "bogus"}, NoImage, 0, <<>>, NoFiles),
     MkRaw("tank", SourceUri, {"clustered"}, NoImage, 0, <<mvMalformed>>, NoFiles)}

(* For the refinement check: clustered or not, with or without public      *)
(* addresses (so ctdb.json depends on the inventory), the configured-file *)
(* case, and one raw config validate() rejects.                           *)
MCRefRawConfigs ==
    {MkRaw("tank", SourceUri, f, NoImage, 0, a, NoFiles) :
        f \in {{}, {"clustered"}}, a \in {<<>>, <<PublicIP>>}}
    \cup
    {MkRaw("tank", SourceUri, {"clustered"}, Img, 9922, <<PublicIP>>,
           UserFile :> mvUserData),
     MkRaw("tank", SourceUri, {}, NoImage, mvNotANumber, <<>>, NoFiles)}

MCRankInfos == {<<-1, -1>>, <<0, 3>>}

(* The host inventory may change between two deployments (a NIC added).   *)
MCHostInventories ==
    {("net-a" :> <<"eth0">>),
     ("net-a" :> <<"eth0">>) @@ ("net-b" :> <<"eth1", "eth2">>)}

MCInitialEndpoints == {<<>>, <<445>>}

MCUserFilePaths == {UserFile}

=============================================================================
