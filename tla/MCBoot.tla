------------------------------- MODULE MCBoot -------------------------------
(* Boot with a counter of 16 values of which 10 are measured, and machines *)
(* that differ in what Limine answers, in the CPU, and in the bus.         *)
EXTENDS Boot, TLC

Device(vendor, class, decode, irq_line, wire) ==
  [vendor |-> vendor, class |-> class, power |-> "D0", caps |-> <<>>, first_cap |-> 0,
   bar0 |-> "bar", keeps_bar |-> TRUE, decode |-> decode, irq_line |-> irq_line, wire |-> wire]

(* Power management is the second capability of its list.                  *)
Asleep(device, keeps_bar) ==
  [device EXCEPT !.power = "D3", !.keeps_bar = keeps_bar, !.first_cap = 80,
                 !.caps = (80 :> [id |-> 5, next |-> 64]) @@ (64 :> [id |-> 1, next |-> 96])
                            @@ (96 :> [id |-> 9, next |-> 0])]

(* Capabilities, power management not among them.                          *)
Listed(device) == [device EXCEPT !.first_cap = 80, !.caps = (80 :> [id |-> 5, next |-> 0])]

Bridge == Device("intel", <<6, 0>>, {"mem"}, 255, 0)
Wireless == Device("intel", <<2, 128>>, {}, 10, 10)
Intel == Device("intel", ETHERNET, {}, 10, 10)
Realtek == Device("realtek", ETHERNET, {"io"}, 5, 5)

MCBuses ==
  { <<Bridge, Wireless, Asleep(Intel, TRUE), Realtek>>,
    <<Bridge, Listed([Intel EXCEPT !.irq_line = 255, !.wire = 11])>>,
    <<Realtek>>,
    <<[Realtek EXCEPT !.irq_line = 7, !.wire = 7], Intel>>,
    <<[Intel EXCEPT !.irq_line = 15, !.wire = 15]>>,
    <<Bridge, [Intel EXCEPT !.vendor = "other"], Intel>>,
    <<Asleep(Intel, FALSE)>>,
    <<[Realtek EXCEPT !.decode = {}]>>,
    <<Bridge, Wireless>> }

MCAnswered == {Requests} \cup {Requests \ {request} : request \in Requests}
MCCpus == {{}, {"xsave"}, {"xsave", "avx"}}
=============================================================================
