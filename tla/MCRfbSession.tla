---------------------------- MODULE MCRfbSession ----------------------------
(***************************************************************************)
(* One server of each kind the client treats in a way of its own.          *)
(***************************************************************************)
EXTENDS RfbSession

Plainest == [version |-> "3.8", repeater |-> FALSE, types |-> <<"None">>,
             tunnels |-> "none", subs |-> <<>>, ven |-> "ok", venTypes |-> <<>>, ra2 |-> "user",
             accepts |-> TRUE, explains |-> TRUE, tight |-> FALSE]

\* Every kind of authentication, offered by servers of every version,
Offering == {[Plainest EXCEPT !.version = version, !.types = types] :
                version \in {"3.3", "3.7", "3.8"},
                types \in {<<>>, <<"unknown">>} \cup {<<t>> : t \in {"None", "VNCAuth", "ARD"}}}
            \cup {[Plainest EXCEPT !.types = types] :
                    types \in {<<"unknown", "VNCAuth">>, <<"RA2ne">>, <<"XVP">>, <<"MSLogonII">>}}
            \cup {[Plainest EXCEPT !.types = <<"RA2ne">>, !.ra2 = "password"]}
\* the two that offer kinds of their own,
Nested == {[Plainest EXCEPT !.types = <<"VeNCrypt">>, !.venTypes = types] :
             types \in {<<>>, <<"VeNCrypt">>, <<"VeNCrypt", "Plain">>, <<"VNCAuth">>}}
          \cup {[Plainest EXCEPT !.types = <<"VeNCrypt">>, !.venTypes = <<"Plain">>, !.ven = ven] :
                  ven \in {"other", "failed"}}
          \cup {[Plainest EXCEPT !.types = <<"Tight">>, !.tunnels = tunnels, !.subs = subs] :
                  tunnels \in {"none", "notunnel"},
                  subs \in {<<>>, <<"unknown">>, <<"STDVVNCAUTH", "STDVNOAUTH">>,
                            <<"unknown", "STDVVNCAUTH">>, <<"TGHTULGNAUTH">>}}
          \cup {[Plainest EXCEPT !.types = <<"Tight">>, !.tunnels = tunnels] : tunnels \in {"siemens", "other"}}
\* and servers that refuse, with and without a reason, or are reached by a repeater.
Refusing == {[Plainest EXCEPT !.version = version, !.types = <<"VNCAuth">>, !.accepts = FALSE, !.explains = explains] :
               version \in {"3.7", "3.8"}, explains \in BOOLEAN}
            \cup {[Plainest EXCEPT !.version = "bad"], [Plainest EXCEPT !.repeater = TRUE]}

MCServers == Offering \cup Nested \cup Refusing
MCGiven == {{}, {"password"}, Fields}
MCQuits == {"none", "credentialsrequired", "serververification", "securityfailure", "desktopname", "connect"}
=============================================================================
