----------------------------- MODULE MCReceive -----------------------------
(* Receive with a ring of 3 or 4, a magic of 2 bytes, a size of 1 byte and *)
(* two workloads: one of 7 bytes in two chunks and two huge pages, then    *)
(* one of 3 bytes in one chunk and one huge page.  Both last chunks are    *)
(* padded by Ethernet beyond the announced size.                           *)
EXTENDS Receive

MCMagic == <<71, 33>>
MCPayloads == <<<<11, 12, 13, 14, 15, 16, 17>>, <<21, 22, 23>>>>

(* A broadcast of some other protocol, a frame with a receive error, and   *)
(* frames of the kernel's own EtherType: one without the magic, and one    *)
(* that announces a workload of no bytes.                                  *)
Broadcast == [kind |-> "other", role |-> "noise", payload |-> <<1, 1, 1, 1>>]
Broken == [kind |-> "error", role |-> "noise", payload |-> <<71, 33, 1, 0>>]
Stray == [kind |-> "work", role |-> "noise", payload |-> <<1, 1, 1, 1>>]
Empty == [kind |-> "work", role |-> "noise", payload |-> <<71, 33, 0, 0>>]

NoNoise == {}
Unrelated == {Broadcast, Broken}
AnyNoise == {Broadcast, Stray, Empty}
StrayOnly == {Stray}
=============================================================================
