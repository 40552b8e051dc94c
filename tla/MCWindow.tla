------------------------------ MODULE MCWindow ------------------------------
(* Instances of Window for TLC.                                            *)
EXTENDS Window, TLC

Good == [name |-> TRUE, https |-> TRUE, bootstrap |-> TRUE]
NoBootstrap == [Good EXCEPT !.bootstrap = FALSE]

Game == [id |-> "game",
         domains |-> {<<"*", "Game", "com">>, <<"LAN">>, <<"dev", "corp">>}]

MCDefault == [listen |-> "proxy", providers |-> <<Good, Good, Good>>,
              policy |-> DefaultPolicy, profiles |-> <<>>]

\* A user with a split network and a game, who has DoH for little else, and
\* settings that the page must refuse.  (DoH for everything is the default.)
MCConfigs ==
    {[MCDefault EXCEPT
        !.listen = "other",
        !.providers = <<Good>>,
        !.policy.default_doh = FALSE,
        !.policy.force_doh = {<<"www", "corp", "">>},
        !.policy.force_local = {<<"Dev", "corp">>, <<"">>},
        !.profiles = <<Game>>],
     [MCDefault EXCEPT !.providers = <<Good, NoBootstrap>>]}

\* Files of another hand: one that is used, although no provider of it can be
\* reached without DNS, with a profile that no page has shown; and two that are
\* refused, without https and without an address
MCFiles ==
    {<<Item("provider", NoBootstrap), Item("force_local", {<<"game", "com">>}),
       Item("profile", Game)>>,
     <<Item("provider", [Good EXCEPT !.https = FALSE])>>,
     <<Item("listen", "bad")>>}

MCNames ==
    {<<"www", "example", "com", "">>, <<"eu", "GAME", "com", "">>,
     <<"game", "com", "">>, <<"dev", "corp", "">>, <<"www", "corp", "">>,
     <<"nas", "lan", "">>, <<"router", "">>, <<"x", "home", "arpa", "">>,
     <<"plan", "com", "">>}

MCLowerCase ==
    "Game" :> "game" @@ "GAME" :> "game" @@ "LAN" :> "lan" @@ "Dev" :> "dev"

MCOctets == {10, 31, 32, 168, 172, 192}
MCU8 == [l \in {ToString(n) : n \in MCOctets} |->
           CHOOSE n \in MCOctets : ToString(n) = l]

=============================================================================
