------------------------------ MODULE MCPlayer ------------------------------
(***************************************************************************)
(* Instances of Player for TLC: a file of a few packets of sound and       *)
(* picture, short rings, and clients that call now and then.               *)
(***************************************************************************)
EXTENDS Player

MCMedia == <<"video", "audio", "video">>
MCRingSize == [k \in {"audio", "video"} |-> 2]
MCDelay == [k \in {"audio", "video"} |-> IF k = "video" THEN 1 ELSE 0]
Do(type) == [type |-> type]
Seek(to) == [type |-> "seek", to |-> to]

MCScripts == {<<Do("pause"), Seek(1)>>, <<Do("pause"), Do("resume")>>, <<Seek(1), Do("quit")>>}

=============================================================================
