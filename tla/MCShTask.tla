------------------------------- MODULE MCShTask -------------------------------
(* Instances of ShTask: three hooking threads and two libraries that come  *)
(* and go, and the soinfos of one or several Androids, from their first    *)
(* field on.                                                               *)
EXTENDS ShTask, TLC

Others(m) == [i \in 1 .. m |-> "other"]

Soinfo(before, base, ld, between, links) ==
  LET front == Others(before) \o <<"phdr", "phnum">> \o base \o <<"other">> \o ld \o Others(between)
      words == front \o <<"bias", "name", "ld">> \o links \o <<"zero", "bias">> \o Others(8)
  IN [mem |-> [i \in 0 .. Len(words) - 1 |-> words[i + 1]], phdr |-> before, bias |-> Len(front)]

MCSoinfos ==
  {Soinfo(before, base, ld, between, links) :
     before \in 0 .. 8, base \in {<<"bias">>, <<"other">>, <<"zero", "bias">>},
     ld \in {<<"ld">>, <<"zero", "ld">>}, between \in 3 .. 9,
     links \in {<<"other", "other">>, <<"zero", "other">>}}

MCSoinfo == {Soinfo(3, <<"bias">>, <<"ld">>, 4, <<"other", "other">>)}

Symmetry == Permutations(Clients) \cup Permutations(Libs)
===============================================================================
