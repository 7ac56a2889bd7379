------------------------- MODULE MCSmbNetworkMapper -------------------------
(***************************************************************************)
(* Checks _NetworkMapper's conversion against a reference definition built *)
(* from the community modules, over every host inventory of a few         *)
(* networks and every destination list up to MaxDests long, which the     *)
(* checker grows one destination at a time.                                *)
(***************************************************************************)
EXTENDS SmbNetworkMapper, FiniteSets
LOCAL INSTANCE SequencesExt

CONSTANTS NetNames, DestNames, DevNames, MaxDests

ASSUME MaxDests \in Nat

VARIABLES networks, dests

vars == <<networks, dests>>

(* Every network -> devices map over NetNames with device lists of up to   *)
(* two devices; a host may lack any of the networks.                       *)
Inventories ==
    UNION {[ns -> SeqOf(DevNames, 2)] : ns \in SUBSET NetNames}

Init == networks \in Inventories /\ dests = <<>>

AddDest(d) == Len(dests) < MaxDests /\ dests' = Append(dests, d) /\ UNCHANGED networks
Reset == Len(dests) = MaxDests /\ dests' = <<>> /\ UNCHANGED networks

Next == (\E d \in DestNames : AddDest(d)) \/ Reset

Spec == Init /\ [][Next]_vars

(* Spec section 4.2: the interfaces of an address are the devices of its   *)
(* destination networks, destination order first and device order second, *)
(* a network the host lacks contributing none and duplicates kept.         *)
InterfacesRef(nets, ds) ==
    FlattenSeq([i \in 1..Len(ds) |-> IF ds[i] \in DOMAIN nets THEN nets[ds[i]] ELSE <<>>])

Other == [address |-> "192.168.76.201/24", destinations |-> <<"net-a">>]

(* for_sambacc (lines 777-783) gives every configured address, in order,   *)
(* the interfaces the reference names, and nothing for no address.        *)
ForSambaccMatchesReference ==
    LET addrs == <<[address |-> "192.168.76.200/24", destinations |-> dests], Other>>
        out == ForSambacc(networks, addrs)
    IN  /\ ForSambacc(networks, <<>>) = <<>>
        /\ Len(out) = 2
        /\ \A i \in 1..2 :
              out[i] = [address |-> addrs[i].address,
                        interfaces |-> InterfacesRef(networks, addrs[i].destinations)]

=============================================================================
