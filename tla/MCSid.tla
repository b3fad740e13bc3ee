--------------------------------- MODULE MCSid ---------------------------------
(* Instances of Sid for TLC.  The writes of one chip's instance are those the *)
(* techniques of sample playback consist of.                                 *)
EXTENDS Sid

VARIABLE seen   \* per voice of chip 0: age of the last triangle and test writes

mcvars == <<vars, seen>>
Long == 200
Older(age, cycles) == IF age + cycles > Long THEN Long ELSE age + cycles

See(addr, value, gap) ==
  [v \in DigiVoices |->
     LET wave == ReachesSid(addr) /\ ChipAt(header, addr) = 0 /\ addr % 32 = 7 * v + 4
     IN [tri |-> IF wave /\ Tri(value) /\ Gate(value) /\ ~ Test(value) THEN 0 ELSE Older(seen[v].tri, gap),
         test |-> IF wave /\ Test(value) /\ ~ Tri(value) THEN 0 ELSE Older(seen[v].test, gap)]]

MCInit == Init /\ seen = [v \in DigiVoices |-> [tri |-> Long, test |-> Long]]
MCNext ==
  \/ \E t \in Targets[header], gap \in Gaps : Write(t[1], t[2], gap) /\ seen' = See(t[1], t[2], gap)
  \/ (\E h \in Headers : NextSong(h)) /\ UNCHANGED seen
  \/ EndFrame /\ UNCHANGED seen
  \/ (\E model \in Models : SetModel(model = 6581)) /\ UNCHANGED seen
  \/ (\E c \in ChipIndices, v \in UserMutes, on \in BOOLEAN : Mute(c, v, on)) /\ UNCHANGED seen
MCSpec == MCInit /\ [][MCNext]_mcvars /\ WF_vars(EndFrame)

\* digi.cpp:273: the triangle, the test bit and the frequency are written in
\* short order: a sample of the frequency technique has followed a triangle
\* and then a test write to the same voice, each within its time limit.
Documented ==
  [][\A v \in DigiVoices :
       (chips'[0].digi.fm > chips[0].digi.fm /\ chips'[0].digi.src = v + 1)
         => /\ seen[v].test < seen[v].tri
            /\ seen[v].tri - seen[v].test < FreqTimeout0
            /\ seen'[v].test < 2 * FreqTimeout]_mcvars

Plain == [ext |-> FALSE, version |-> 2, centers |-> <<>>, revisions |-> <<1>>,
          rsid |-> TRUE, compatible |-> TRUE]
Two6581 == [Plain EXCEPT !.version = 3, !.centers = <<\h42>>]
Three == [Plain EXCEPT !.version = 4, !.centers = <<\h50, \hE0>>, !.revisions = <<1, 2, 0>>]
Last == [Plain EXCEPT !.version = 3, !.centers = <<\hF0>>]

OneChip == {Plain}
TwoChips == {Two6581}
OneOrThree == {Plain, Three}
OneOrTwo == {Plain, Two6581}
AtTheEnd == {Last}

\* Writes of the techniques on two voices, and of the volume.
Frequency == {<<\hD404, 17>>, <<\hD404, 9>>, <<\hD404, 1>>, <<\hD401, 80>>}
Pulses == {<<\hD404, 73>>, <<\hD404, 65>>, <<\hD402, 3>>}
Volume == {<<\hD418, 12>>}
Swallow == {<<\hD403, 8>>, <<\hD406, 240>>, <<\hD404, 73>>, <<\hD404, 65>>}

\* Registers of every chip, and addresses next to them.
AnyChip == {<<\hD500, 3>>, <<\hD520, 4>>, <<\hDE18, 9>>, <<\hD415, 255>>}
Filters == {<<\hD415, 7>>, <<\hD416, 64>>, <<\hD417, 241>>, <<\hD436, 32>>, <<\hD435, 1>>}

DigiTargets == [h \in OneOrThree |-> IF h = Plain THEN Frequency \cup Pulses \cup Volume ELSE AnyChip]
SwallowTargets == [h \in OneChip |-> Swallow \cup Volume]
FilterTargets == [h \in OneOrTwo |-> Filters]
NoTargets == [h \in AtTheEnd |-> {}]
=============================================================================
