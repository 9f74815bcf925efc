------------------------------ MODULE MCScreen ------------------------------
(***************************************************************************)
(* Messages that bring every encoding, next to pictures that load late.    *)
(***************************************************************************)
EXTENDS Screen

Updates == {<<"photo", "raw">>, <<"jpeg", "bare">>, <<"key", "delta", "copyrect">>,
            <<"basic", "reset", "basic">>, <<"palette", "palette">>, <<"hextile", "hextile">>,
            <<"photo", "zlib", "zlib", "png">>, <<"zrle", "dots", "fill", "rre">>,
            <<"cursor", "vmware", "leds", "keys", "buttons", "nothing", "name", "last">>,
            <<"size", "layout">>}
Others == {<<"fence">>, <<"xvp", "fence">>, <<"bell", "text">>, <<"continuous">>,
           <<"caps", "notify">>, <<"caps", "peek", "request">>, <<"provide">>}
MCMessages == Updates \cup Others

\* What shows the raw pixels that wait
RawMessages == {<<"photo", "raw">>}
=============================================================================
