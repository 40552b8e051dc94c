------------------------------ MODULE MCFilter ------------------------------
(* Instances of Filter for TLC.                                            *)
EXTENDS Filter

U16(n) == <<n \div 256, n % 256>>
Ext(type, body) == U16(type) \o U16(Len(body)) \o body
Sni(name) == Ext(0, U16(Len(name) + 3) \o <<0>> \o U16(Len(name)) \o name)

\* A ClientHello as applications build it, with a session id of sid bytes
Hello(sid, exts) ==
    LET body == <<3, 3>> \o [i \in 1..32 |-> 9] \o <<Len(sid)>> \o sid
                  \o <<0, 2, 19, 1>> \o <<1, 0>> \o U16(Len(exts)) \o exts
    IN <<22, 3, 1>> \o U16(Len(body) + 4) \o <<1, 0>> \o U16(Len(body)) \o body

Name == <<119, 121>>
Early == <<22, 3, 1, 0, 1, 20>>     \* another record behind the first

MCFlights ==
    {[name |-> Name, exts |-> <<48>>, data |-> Hello(<<>>, Sni(Name))],
     [name |-> Name \o <<122>>, exts |-> <<50, 56>>,
      data |-> Hello(<<0, 0>>, Ext(10, <<0, 29>>) \o Sni(Name \o <<122>>))],
     [name |-> <<119>>, exts |-> <<48>>, data |-> Hello(<<>>, Sni(<<119>>))]}
    \cup {[name |-> <<>>, exts |-> <<>>, data |-> data] :
             data \in {Hello(<<>>, <<>>), Hello(<<7>>, <<>>) \o Early, Early}}

MCReads == {0, 1, 5, 6, 12, 52, 53, 59, 60, 62, 63, 65, 70, 72}
MCForeign == {{}, {"connect"}, {"transparent"}}
=============================================================================
