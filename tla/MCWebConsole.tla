---------------------------- MODULE MCWebConsole ----------------------------
(* Commands for model checking WebConsole: the modes, a channel, and a     *)
(* longer text that starts like it and names no channel.                   *)
EXTENDS WebConsole

MCTexts == {<<"wifiMode=", "1">>, <<"wifiMode=", "2">>,
            <<"targetChannel=", "1">>, <<"targetChannel=", "1", "4">>}
=============================================================================
