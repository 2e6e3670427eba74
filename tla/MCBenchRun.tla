----------------------------- MODULE MCBenchRun -----------------------------
(* Three kernels of two types; the type in between has no kernel.  Command    *)
(* lines with every option, alone, repeated, without its value and with a     *)
(* wrong one, on the right platform, on another one and on one that cannot    *)
(* be read.                                                                   *)
EXTENDS BenchRun

MCTypes == <<"q4_0", "q4_K", "iq2_xxs">>
MCTypeOf == [k \in Kernels |-> IF k = "upstream" THEN "iq2_xxs" ELSE "q4_0"]
MCBlockOf == ("q4_0" :> 32) @@ ("q4_K" :> 256) @@ ("iq2_xxs" :> 256)
MCMultipleOf == ("m4b" :> <<4, 16, 32>>) @@ ("m8b" :> <<8, 16, 32>>) @@ ("upstream" :> <<1, 1, 256>>)

MCDeviceTrees == { <<"vendor,generic", "spacemit,k1-x">>, <<"vendor,unknown">>, <<>> }
MCNumberOf == [text \in {"1", "2", "8", "16", "32", "48", "256"} |->
    CASE text = "1" -> 1 [] text = "2" -> 2 [] text = "8" -> 8 [] text = "16" -> 16
      [] text = "32" -> 32 [] text = "48" -> 48 [] text = "256" -> 256]
MCRawNumbers == DOMAIN MCNumberOf \union {"0x12", "0"}
MCTokensOf ==
    ("" :> <<"">>) @@ ("cycles" :> <<"cycles">>) @@ ("llc-miss,cycles," :> <<"llc-miss", "cycles", "">>)
    @@ ("page-faults" :> <<"page-faults">>) @@ ("cycles,,llc-miss" :> <<"cycles", "", "llc-miss">>)
    @@ ("raw:cycles:0x12" :> <<"raw:cycles:0x12">>) @@ ("raw::1" :> <<"raw::1">>)
    @@ ("raw:x:y,cycles" :> <<"raw:x:y", "cycles">>) @@ ("flops" :> <<"flops">>)
MCRawOf ==
    ("raw:cycles:0x12" :> [name |-> "cycles", config |-> "0x12"])
    @@ ("raw::1" :> [name |-> "", config |-> "1"]) @@ ("raw:x:y" :> [name |-> "x", config |-> "y"])

\* A sample that ran all the time, one that did not, and one that was not enabled.
MCTimes == { [enabled |-> 100, running |-> 100], [enabled |-> 100, running |-> 98], [enabled |-> 0, running |-> 0] }

Shape(m, n, k) == << <<"--m", m>>, <<"--n", n>>, <<"--k", k>> >>

\* All that can follow a shape and still run.
Good ==
    { <<"--no-verify">>, <<"--kernel", "m4b">>, <<"--iterations", "2">>, <<"--samples", "2">>,
      <<"--perf-events", "cycles">>, <<"--perf-event", "page-faults">>, <<"--perf-events", "">> }

Other ==
    { <<o>> : o \in ModeOptions } \union
    { <<"--kernel", "none">>, <<"--kernel", "--list">>, <<"--threads", "8">>, <<"--threads", "16">>, <<"--warmup", "1">>,
      <<"--m", "0">>, <<"--n", "x">>, <<"--k", "--list">>, <<"--k", "0x12">>, <<"--help">>,
      <<"--perf-events", "llc-miss,cycles,">>, <<"--perf-events", "cycles,,llc-miss">>,
      <<"--perf-event", "raw:cycles:0x12">>, <<"--perf-event", "raw::1">>,
      <<"--perf-event", "raw:x:y,cycles">>, <<"--perf-event", "flops">> }

Fast == << <<"--samples", "1">>, <<"--iterations", "1">> >>

\* The last word is an option that lacks its value.
Lacking == { <<o>> : o \in {"--kernel", "--k", "--perf-events"} }

MCCommandLines ==
    { Shape("8", "16", "256") \o << a, <<"--samples", "2">> >> : a \in Good }
    \union { Shape("8", "16", k) \o Fast \o << <<"--kernel", "m4b">> >> : k \in {"32", "48"} }
    \union { Shape("2", "16", "256") \o Fast \o << a, b >> : a \in Good, b \in Good \union Other \union Lacking }
    \union { << a, b >> : a \in Other, b \in Good \union Other \union Lacking }
    \union { << a >> : a \in Other \union Lacking } \union { <<>> }
=============================================================================
