--------------------------- MODULE MCConfigStore ---------------------------
(* Files as users write them: nothing at all; a setting the TUI does not know  *)
(* at each level, of each kind, a float that is integral among them; keys and  *)
(* lists that come again; an api that is no string; a profile without a name.  *)
EXTENDS ConfigStore

MCDevice ==
    <<Setting("device", String("Sound")), Setting("frequency", Whole(40)),
      Setting("gain", Float(20)), Setting("hand", <<"Array", <<Whole(1), Float(5)>> >>)>>
MCTwice == <<Setting("frequency", Float(400)), Setting("frequency", Whole(50))>>
MCProfile ==
    Group(<<Setting("note", String("mine")), Setting("sim", String("ac")),
            Setting("devices", List(<<Group(MCDevice), Group(MCTwice)>>)),
            Setting("level", Float(10)), Setting("api", Whole(3))>>)
MCNamed ==
    Group(<<Setting("name", String("GT")), Setting("sim", String("ac")),
            Setting("sim", String("rf2")), Setting("api", String("simapi")),
            Setting("old", Group(<<Setting("on", <<"Bool", TRUE>>)>>))>>)

MCDocuments ==
    {<<>>,
     Render(Group(<<Setting("version", Float(20)), Setting("configs", List(<<MCProfile>>))>>)),
     Render(Group(<<Setting("configs", List(<<MCNamed>>)), Setting("debug", <<"Bool", FALSE>>),
                    Setting("configs", <<"Array", <<MCProfile>> >>)>>)),
     SelectSeq(Render(Group(<<Setting("configs", List(<<MCNamed>>))>>)),
               LAMBDA token : token # Separator)}
MCGivenValues == {Float(30), Float(Infinite)}
=============================================================================
