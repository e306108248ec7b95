------------------------------ MODULE MCRunner ------------------------------
EXTENDS Runner

(* Definitions that put a recipe, a when(...) block and an inner recipe    *)
(* into the run, every combination of the member lists below.              *)
Ask(s) == [Answer("ok") EXCEPT !.status = s]

MCModules == {"unit", "flush", "stop", "port", "reload", "reboot"}
MCLists == {"run", "site", "block", "inner"}
MCKind == [l \in MCLists |-> CASE l = "run" -> "run" [] l = "block" -> "when"
                               [] OTHER -> "recipe"]

MCChecks ==
  [m \in MCModules |->
     CASE m = "flush" -> {"needs"}
       [] m = "stop" -> {"ok", "needs"}
       [] m = "port" -> {"needs"}
       [] OTHER -> {"ok", "needs", "throws"}]
MCResults ==
  [m \in MCModules |->
     CASE m = "flush" -> {[Answer("ok") EXCEPT !.flush = TRUE]}
       [] m = "stop" -> {[Answer("ok") EXCEPT !.stop = TRUE]}
       [] m = "port" -> {[Ask("changed") EXCEPT !.port = p] : p \in {22, 2222}}
       [] m = "reboot" -> {Ask("failed"), [Ask("changed") EXCEPT !.reboot = TRUE]}
       [] OTHER -> {Ask("ok"), Ask("changed"), Ask("failed"), Ask("throws")}]

Define(run, site, block, inner, siteSignals, innerSignals) ==
  [members |-> [l \in MCLists |-> CASE l = "run" -> run [] l = "site" -> site
                                    [] l = "block" -> block [] OTHER -> inner],
   signals |-> [l \in MCLists |-> CASE l = "run" -> <<"reload", "reload">>
                                    [] l = "site" -> siteSignals
                                    [] l = "block" -> <<>> [] OTHER -> innerSignals]]

Runs == <<  <<"site", "flush">>, <<"unit", "site">>, <<"site", "block">>,
            <<"block", "site">>, <<"stop", "site">>, <<"site", "site">> >>
Sites == << <<"unit", "flush">>, <<"unit", "inner">>, <<"inner", "flush">>,
            <<"port", "unit">>, <<"block", "unit">>, <<"unit", "block">>,
            <<"flush", "port">>, <<"inner", "block">>,
            <<"inner", "unit", "flush">>, <<"port", "flush", "unit">> >>
Blocks == << <<"unit", "flush">>, <<"inner", "stop">> >>
Inners == << <<"port", "unit">>, <<"unit", "flush">> >>
SiteSignals == << <<>>, <<"reboot">> >>

Pick(s, n) == s[(n % Len(s)) + 1]

MCIndices == 0..479
MCDefinitions ==
  [i \in MCIndices |->
     Define(Pick(Runs, i), Pick(Sites, i \div 6), Pick(Blocks, i \div 60),
            Pick(Inners, i \div 120), Pick(SiteSignals, i \div 240), <<"reload">>)]

(* A recipe whose signal reboots, inside a when(...) block.                *)
GuardedDefinitions ==
  <<Define(<<"block", "unit">>, <<"unit">>, <<"inner", "unit">>, <<"unit">>,
           <<>>, <<"reboot">>)>>

(* MCDefinitions keeps to what the proof about the control plane asks for; *)
(* GuardedDefinitions does not.                                            *)
ASSUME MCDefinitionsReachTheHook == SignalsReachTheHook <=> Indices = MCIndices
=============================================================================
