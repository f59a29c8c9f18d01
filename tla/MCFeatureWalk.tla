--------------------------- MODULE MCFeatureWalk ---------------------------
(* FeatureWalk for TLC: answers of up to three descriptors, of every feature  *)
(* that has a parser, with too little, enough and too much data, readable or  *)
(* not, and with a length field that is right, too small or too large.        *)
EXTENDS FeatureWalk, SequencesExt

Dtor(code, flags, bytes) == <<code \div 256, code % 256, flags, Len(bytes)>> \o bytes
Active(f) == IF "active" \in DOMAIN f THEN Bit(f.active, 1) ELSE 1

\* A descriptor of the feature, of a version that has `more` data.
Item(f, more) == [means |-> f, bytes |-> Dtor(FeatureCode(f), 4 + Active(f), FeatureData(f) \o more)]

List(profiles) == [is |-> "ProfileList", profiles |-> profiles]
Serial(active, sno) == [is |-> "DriveSerialNumber", active |-> active, sno |-> sno]

MCFeatures ==
  ProfileLists(1) \union Cores \union Morphings \union RemovableMedia \union CdReads
  \union { [f EXCEPT !.volume_levels = 128 * @] : f \in AudioPlays(2) }
  \union DvdCsses(1) \union { Serial(TRUE, sno) : sno \in {<<>>, <<65>>, <<65, 0, 127>>} }

\* Features with reserved codes, or that have no value; a profile that is not
\* known, before, behind and between some that are.
MCReserved ==
  LET Known(kind) == [active |-> TRUE, kind |-> kind]
      unknown     == [active |-> TRUE, kind |-> 6]
  IN  { [is |-> "Core", interface |-> 256], [is |-> "Core", interface |-> 65536 + 7],
        [is |-> "RemovableMedium", eject |-> FALSE, lock |-> FALSE, prevent_jumper |-> TRUE, load_mech |-> 3],
        Serial(TRUE, <<255>>), Serial(FALSE, <<65>>),
        [is |-> "Other", code |-> 288], [is |-> "Other", code |-> 257],
        List(<<unknown, Known(8)>>), List(<<Known(8), unknown>>), List(<<Known(8), unknown, Known(9)>>) }

\* Too short for their feature, or shorter than they say.
MCMalformed == { [means |-> NoFeature, bytes |-> bytes] :
                   bytes \in { Dtor(1, 1, <<0>>), Dtor(3, 1, <<>>), Dtor(262, 1, <<0, 0, 0>>), <<2, 8, 1, 4, 0>> } }

\* Pairs and triples are made of these.
MCSome == { Item([is |-> "Morphing", async_events |-> TRUE, op_chg_events |-> FALSE], <<0, 0, 0>>),
            Item([is |-> "Core", interface |-> 7], <<1>>), Item(List(<<>>), <<>>),
            Item(Serial(TRUE, <<65>>), <<>>) }
MCMany == { Item(f, <<>>) : f \in MCReserved } \union MCMalformed \union MCSome

MCDescriptors == {<<>>} \union [1..1 -> { Item(f, <<>>) : f \in MCFeatures } \union MCMany]
                 \union [1..2 -> MCMany]
                 \union [1..3 -> MCSome \union { Item([is |-> "Other", code |-> 288], <<9>>),
                                                 [means |-> NoFeature, bytes |-> Dtor(3, 1, <<>>)] }]
MCLengths(bytes) == {Len(bytes) + 4, Len(bytes) + 3, Len(bytes) + 6} \union {0, 3}

MCResponses ==
  UNION { LET Bytes(n) == FlattenSeq([k \in 1..n |-> items[k].bytes])
              layout   == [k \in DOMAIN items |-> [at    |-> Len(Bytes(k - 1)),
                                                   bytes |-> items[k].bytes,
                                                   means |-> items[k].means]]
              data     == Bytes(Len(items))
          IN  { [len |-> n, data |-> data, layout |-> layout] : n \in MCLengths(data) } :
          items \in MCDescriptors }
=============================================================================
