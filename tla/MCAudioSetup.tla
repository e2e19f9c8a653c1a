---------------------------- MODULE MCAudioSetup ----------------------------
(***************************************************************************)
(* AudioSetup for TLC with config/raspberrypi.yaml, config/                *)
(* development.yaml, a file that cannot be read, two sound cards, and a    *)
(* card at 44.1 kHz, which is refused.                                     *)
(***************************************************************************)
EXTENDS AudioSetup

AudioConfig ==
  [sample_rate |-> 16000, hardware_sample_rate |-> 16000, single_mic |-> FALSE,
   primary_device |-> "hw:CARD=Headset,DEV=0", reference_device |-> "hw:CARD=ErrorMic,DEV=0"]

RaspberryPi ==
  <<<<"sample_rate", 16000>>, <<"hardware_sample_rate", 48000>>, <<"input_device", "hw:voice">>,
    <<"reference_device", "disabled">>, <<"single_mic", TRUE>>>>

Development ==
  <<<<"sample_rate", 16000>>, <<"frame_ms", 10>>, <<"input_device", "default">>,
    <<"reference_device", "default">>>>

Refused == <<<<"hardware_sample_rate", 44100>>>>

Configurations == {RaspberryPi, Development, <<>>, Refused}
=============================================================================
