--------------------------- MODULE MCDeviceLogin ---------------------------
(* Instances of DeviceLogin for TLC: two devices and two certificates, so     *)
(* that two devices may have one certificate, or change theirs.               *)
EXTENDS DeviceLogin, TLC

Symmetric == Permutations(Cert)

Main1 == [id |-> Plain(101), name |-> "Door"]
Sub1 == [id |-> Plain(102), name |-> NoText]
Main2 == [id |-> Plain(201), name |-> NoText]
Nameless == [id |-> NoText, name |-> "Yard"]
Spaced == [id |-> [number |-> 301, spaced |-> TRUE], name |-> "Hall"]
Lettered == [id |-> [number |-> NoNumber, spaced |-> FALSE], name |-> NoText]

\* Any two entries, two streams of two cameras with one that has no id, and an
\* id with spaces or letters before and after one that is a number.
SomeLists ==
    SeqOf({Main1, Sub1, Main2, Nameless}, 2)
    \cup {<<Main1, Sub1, Main2>>, <<Main1, Nameless, Main2>>, <<Sub1, Main2, Main1>>,
          <<Spaced, Main1, Lettered>>, <<Lettered, Main2, Main1>>}

\* read_text at the root leaves nothing for the fields of the document.
ASSUME InfoEmpty == \A number \in 0 .. 4 : ParseDeviceInfo(InfoDocument(number)) = 0
=============================================================================
