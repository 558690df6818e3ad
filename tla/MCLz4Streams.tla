---- MODULE MCLz4Streams ----
EXTENDS Lz4Streams
MCHash(w) == (w[1] + w[2] + w[4] + (IF Len(w) = 5 THEN w[5] ELSE 0)) % 3
MCHashes == 0 .. 2
MCPeriod(k, p, ones) == [i \in 1 .. k |-> IF i % p \in ones THEN 1 ELSE 0]
MCWords == { <<0, 0>> \o w \o w \o w : w \in {<<0, 0, 1>>, <<0, 1, 1>>}}
   \cup { <<0,1,0>>, <<>>, MCPeriod(8, 3, {1})}
MCSingles == {MCPeriod(24, 5, {3, 4}), <<0,1,1,1,1,1,0,1,1,1,0,0,1,1>>, [i \in 1..7 |-> 0], <<>>}
MCDictionary == MCPeriod(20, 5, {1})
MCForeign == 99
=====
