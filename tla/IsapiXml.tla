------------------------------- MODULE IsapiXml -------------------------------
(***************************************************************************)
(* What connect() of main.rs makes of the device's XML: parse_device_info  *)
(* and parse_channels of api.rs, one entry a camera, and the numbers the   *)
(* SDK knows the cameras by.                                               *)
(*                                                                         *)
(* A document is the sequence of the events of the XML reader: the start   *)
(* and the end of an element and the text between.  strip_ns and the white *)
(* space between elements make no difference to them.                      *)
(***************************************************************************)
EXTENDS Naturals, SequencesExt

CONSTANTS
    NoText,         \* ""
    NoNumber,       \* the number of an id that is none
    MaxChannels     \* 17

ASSUME XmlAssumption == MaxChannels \in Nat \ {0}

\* The text of an id: the number it reads as, and whether spaces surround it.
Plain(number) == [number |-> number, spaced |-> FALSE]

StartOf(tag) == [kind |-> "start", tag |-> tag, text |-> NoText]
EndOf(tag) == [kind |-> "end", tag |-> tag, text |-> NoText]
Chars(text) == [kind |-> "text", tag |-> "", text |-> text]

-----------------------------------------------------------------------------
(* parse_device_info                                                       *)

\* An event of its loop.  read_text returns all that is left up to the end of the
\* element whose start was read, and moves the reader there: at depth 1 and
\* below, no event comes back to the match on the tags.
ReadInfo(reader, event) ==
    CASE event.kind = "start" -> [reader EXCEPT !.depth = @ + 1, !.tag = IF @ = "" THEN event.tag ELSE @]
      [] event.kind = "text" -> [reader EXCEPT !.text = event.text]
      [] event.kind = "end" /\ reader.depth = 1 ->
            [reader EXCEPT !.depth = 0, !.tag = "",
                           !.zero_chan_num = IF reader.tag = "zeroChanNum" THEN reader.text ELSE @]
      [] OTHER -> [reader EXCEPT !.depth = @ - 1]

\* The number of zero channels of the DeviceInfo: 0 unless the document has it.
ParseDeviceInfo(doc) ==
    FoldLeft(ReadInfo, [depth |-> 0, tag |-> "", text |-> NoText, zero_chan_num |-> 0], doc).zero_chan_num

-----------------------------------------------------------------------------
(* parse_channels                                                          *)

Parser == [in_ch |-> FALSE, in_id |-> FALSE, in_name |-> FALSE,
           ch_id |-> NoText, ch_name |-> NoText, channels |-> <<>>]

\* Mutated form: the id and the name of the last channel are kept.
ReadStartKeeping(p, tag) ==
    CASE tag = "StreamingChannel" -> [p EXCEPT !.in_ch = TRUE]
      [] tag = "id" -> [p EXCEPT !.in_id = @ \/ p.in_ch]
      [] tag = "channelName" -> [p EXCEPT !.in_name = @ \/ p.in_ch]
      [] OTHER -> p

ReadStart(p, tag) ==
    CASE tag = "StreamingChannel" -> [p EXCEPT !.in_ch = TRUE, !.ch_id = NoText, !.ch_name = NoText]
      [] tag = "id" -> [p EXCEPT !.in_id = @ \/ p.in_ch]
      [] tag = "channelName" -> [p EXCEPT !.in_name = @ \/ p.in_ch]
      [] OTHER -> p

ReadChars(p, text) ==
    [p EXCEPT !.ch_id = IF p.in_id THEN text ELSE @, !.ch_name = IF p.in_name THEN text ELSE @]

\* A channel without a name is called "Channel", followed by its id.
Named(id, name) == [id |-> id, name |-> IF name = NoText THEN "Channel" ELSE name]

ReadEnd(p, tag) ==
    CASE tag = "StreamingChannel" ->
            [p EXCEPT !.in_ch = FALSE,
                      !.channels = IF p.ch_id = NoText THEN @ ELSE Append(@, Named(p.ch_id, p.ch_name))]
      [] tag = "id" -> [p EXCEPT !.in_id = FALSE]
      [] tag = "channelName" -> [p EXCEPT !.in_name = FALSE]
      [] OTHER -> p

ReadEvent(p, event) ==
    CASE event.kind = "start" -> ReadStart(p, event.tag)
      [] event.kind = "text" -> ReadChars(p, event.text)
      [] event.kind = "end" -> ReadEnd(p, event.tag)

\* The loop over the events.
ParseChannels(doc) ==
    LET parser[n \in 0 .. Len(doc)] == IF n = 0 THEN Parser ELSE ReadEvent(parser[n - 1], doc[n])
    IN parser[Len(doc)].channels

-----------------------------------------------------------------------------
(* One entry a camera                                                      *)

\* parse::<u32>().unwrap_or(0) / 100, which takes no spaces.
CameraOf(id) == IF id.spaced \/ id.number = NoNumber THEN 0 ELSE id.number \div 100

\* sdk_channel_for, which trims them.
SdkChannelFor(id) == IF id.number = NoNumber THEN 1 ELSE id.number \div 100

\* Mutated form: two entries are one camera when their ids are the same.
KeepFirstOfId(deduped, ch) ==
    IF Len(deduped) = MaxChannels \/ \E k \in DOMAIN deduped : deduped[k].id = ch.id
    THEN deduped ELSE Append(deduped, ch)

\* A round of the loop over the channels, with its set `seen` and its break.
KeepFirst(deduped, ch) ==
    IF Len(deduped) = MaxChannels \/ \E k \in DOMAIN deduped : CameraOf(deduped[k].id) = CameraOf(ch.id)
    THEN deduped ELSE Append(deduped, ch)

OnePerCamera(channels) ==
    LET deduped[n \in 0 .. Len(channels)] ==
            IF n = 0 THEN <<>> ELSE KeepFirst(deduped[n - 1], channels[n])
    IN deduped[Len(channels)]

-----------------------------------------------------------------------------
(* The device's side                                                       *)

Element(tag, content) == <<StartOf(tag)>> \o content \o <<EndOf(tag)>>

TextElement(tag, text) == Element(tag, IF text = NoText THEN <<>> ELSE <<Chars(text)>>)

\* The document for a list of entries, each with an id and a name that may be missing.
ChannelDocument(list) ==
    Element("StreamingChannelList",
            FlattenSeq([i \in DOMAIN list |->
                Element("StreamingChannel", TextElement("id", list[i].id)
                                            \o TextElement("channelName", list[i].name)
                                            \o TextElement("enabled", "true"))]))

InfoDocument(zero_chan_num) ==
    Element("DeviceInfo", TextElement("model", "DS") \o TextElement("zeroChanNum", zero_chan_num))
=============================================================================
