-------------------------- MODULE SmbNetworkMapper --------------------------
(***************************************************************************)
(* _NetworkMapper (smb.py lines 743-783): maps the cephadm-side grouping  *)
(* of a cluster public IP (address -> network names) to the grouping ctdb *)
(* needs (address -> local network devices), using the host's             *)
(* network -> devices inventory that load() fetched.                       *)
(*                                                                         *)
(* An inventory is a function from network names to sequences of device  *)
(* names; the empty dict the mapper starts with is a function with an    *)
(* empty domain.  The loop of _convert is a recursive function over the   *)
(* destinations, so that the provers can reason about it.                 *)
(***************************************************************************)
EXTENDS Integers, Sequences

(* _NetworkMapper.__init__ (line 750): self._networks = {}.               *)
NoNetworks == [n \in {} |-> <<>>]

(* Mutant: a destination the host lacks ends the loop (break, not         *)
(* continue), dropping the devices of the destinations after it.          *)
ConvertDevsBreak(networks, dests) ==
    LET devs[i \in 0..Len(dests)] ==
            IF i = 0 THEN <<>>
            ELSE IF \E j \in 1..i : dests[j] \notin DOMAIN networks
                 THEN devs[i - 1]
                 ELSE devs[i - 1] \o networks[dests[i]]
    IN  devs[Len(dests)]

(* _NetworkMapper._convert (lines 756-775): for each destination network  *)
(* in order, append every device the inventory lists for it; a network    *)
(* the host does not have is skipped with a warning.                      *)
ConvertDevs(networks, dests) ==
    LET devs[i \in 0..Len(dests)] ==
            IF i = 0 THEN <<>>
            ELSE devs[i - 1] \o (IF dests[i] \in DOMAIN networks
                                     THEN networks[dests[i]]
                                     ELSE <<>>)
    IN  devs[Len(dests)]

(* _NetworkMapper.for_sambacc (lines 777-783): one {address, interfaces}  *)
(* entry per configured public address, in configuration order.          *)
ForSambacc(networks, addrs) ==
    IF addrs = <<>> THEN <<>>
    ELSE [i \in 1..Len(addrs) |->
            [address    |-> addrs[i].address,
             interfaces |-> ConvertDevs(networks, addrs[i].destinations)]]

=============================================================================
