----------------------------- MODULE ConfigFile -----------------------------
(***************************************************************************)
(* What a configuration file says and how it is read and written: the      *)
(* libconfig subset of cargopit-config/src/libconfig.rs, and the profiles  *)
(* that config.rs makes of it.                                             *)
(*                                                                         *)
(* A text is a sequence of tokens: white space and comments, which are not *)
(* written back, are left out, and so is how a string or a number is       *)
(* spelled, except for what the parser decides by: a number is a float if  *)
(* it has a point.  A float is a whole number of tenths.                   *)
(***************************************************************************)
EXTENDS Integers, Sequences, SequencesExt

CONSTANTS
    Infinite,       \* the tenths of inf, which typed numbers may be
    MaxDepth        \* how deep values nest

ASSUME ConfigFileAssumption == {Infinite, MaxDepth} \subseteq Nat

-----------------------------------------------------------------------------
(* Values *)

String(s) == <<"String", s>>
Whole(n) == <<"Int", n>>
Float(tenths) == <<"Float", tenths>>
List(items) == <<"List", items>>
Group(settings) == <<"Group", settings>>
Kind(value) == value[1]
Body(value) == value[2]
AsStr(value, otherwise) == IF Kind(value) = "String" THEN Body(value) ELSE otherwise
IsList(value) == Kind(value) \in {"List", "Array"}

\* A group is a sequence of settings, in which a key may come again.
Setting(key, value) == <<key, value>>
GroupRemove(settings, key) == SelectSeq(settings, LAMBDA s : s[1] # key)
\* group_set: the first setting of that key is replaced.
GroupSet(settings, key, value) ==
    LET at == SelectInSeq(settings, LAMBDA s : s[1] = key) IN
    IF at = 0 THEN Append(settings, Setting(key, value))
    ELSE [settings EXCEPT ![at] = Setting(key, value)]

\* Value: a group's settings and a list's items are values again.
ValuesTo[depth \in Nat] ==
    LET parts == IF depth = 0 THEN {} ELSE ValuesTo[depth - 1] IN
         ({"Bool"} \X BOOLEAN) \cup ({"Int", "Float"} \X Int) \cup ({"String"} \X STRING)
    \cup ({"List", "Array"} \X Seq(parts)) \cup ({"Group"} \X Seq(STRING \X parts))
Values == ValuesTo[MaxDepth]

-----------------------------------------------------------------------------
(* render *)

Assign == <<"assign">>
Separator == <<"separator">>
Word(w) == <<"word", w>>
Open(kind) == <<"open", kind>>
Close(kind) == <<"close", kind>>

\* An integral float is written with ".0"; inf as a word.
Number(value) == IF Body(value) = Infinite THEN Word("inf") ELSE <<"number", Body(value), TRUE>>

RenderValue[value \in Values] ==
    CASE Kind(value) = "Bool" -> <<Word(IF Body(value) THEN "true" ELSE "false")>>
      [] Kind(value) = "Int" -> << <<"number", 10 * Body(value), FALSE>> >>
      [] Kind(value) = "Float" -> <<Number(value)>>
      [] Kind(value) = "String" -> <<value>>
      [] IsList(value) ->
             <<Open(Kind(value))>>
                 \o FoldLeft(LAMBDA text, item :
                        text \o (IF text = <<>> THEN <<>> ELSE <<Separator>>) \o RenderValue[item],
                        <<>>, Body(value))
                 \o <<Close(Kind(value))>>
      [] Kind(value) = "Group" ->
             <<Open("Group")>>
                 \o FoldLeft(LAMBDA text, setting :
                        text \o <<Word(setting[1]), Assign>> \o RenderValue[setting[2]] \o <<Separator>>,
                        <<>>, Body(value))
                 \o <<Close("Group")>>

\* The document is a group without its braces.
Render(root) == Tail(Front(RenderValue[root]))

-----------------------------------------------------------------------------
(* parse *)

\* What was read, and the place after it.
Failed == [ok |-> FALSE]
Parsed(value, next) == [ok |-> TRUE, value |-> value, next |-> next]

SkipSeparators(text, i) ==
    CHOOSE j \in i .. Len(text) + 1 :
        /\ j <= Len(text) => text[j] # Separator
        /\ \A k \in i .. j - 1 : text[k] = Separator

\* What one token says; of the words only these two are values.
Scalar(token) ==
    CASE token[1] = "number" -> IF token[3] THEN Float(token[2]) ELSE Whole(token[2] \div 10)
      [] token[1] = "String" -> token
      [] token[1] = "word" -> <<"Bool", token[2] = "true">>
IsScalar(token) ==
    token[1] \in {"number", "String"} \/ token \in {Word("true"), Word("false")}

Collections == {"List", "Array"}
Groups == {"Group", "Document"}

\* From every place: a value, or what is left of a list or of settings. Settings
\* go to a brace or, of the document, to the end of the file.
Parse(text) ==
    LET end == Len(text) + 1
        Closed(of, i) == IF of = "Document" THEN i = end ELSE i < end /\ text[i] = Close(of)
        Keyed(i) == i + 1 < end /\ text[i][1] = "word" /\ text[i + 1] = Assign
        from[of \in {"value"} \cup Collections \cup Groups, i \in 1 .. end] ==
            CASE of = "value" /\ i < end /\ IsScalar(text[i]) -> Parsed(Scalar(text[i]), i + 1)
              [] of = "value" /\ i < end /\ \E kind \in Collections \cup {"Group"} : text[i] = Open(kind) ->
                     LET body == from[text[i][2], i + 1] IN
                     IF body.ok THEN Parsed(<<text[i][2], body.value>>, body.next) ELSE Failed
              [] of # "value" /\ Closed(of, i) -> Parsed(<<>>, Min({i + 1, end}))
              [] of # "value" /\ ~Closed(of, i) /\ i < end /\ (of \in Groups => Keyed(i)) ->
                     LET value == from["value", IF of \in Groups THEN i + 2 ELSE i]
                         others == from[of, SkipSeparators(text, value.next)]
                         part == IF of \in Groups THEN Setting(text[i][2], value.value) ELSE value.value
                     IN  IF value.ok /\ others.ok THEN Parsed(<<part>> \o others.value, others.next)
                         ELSE Failed
              [] OTHER -> Failed
    IN from

ParseDocument(text) ==
    LET settings == Parse(text)["Document", 1] IN
    IF settings.ok THEN Parsed(Group(settings.value), settings.next) ELSE Failed

-----------------------------------------------------------------------------
(* Profiles *)

NewProfile == [name |-> "", sim |-> "default", car |-> "default", api |-> {},
               devices |-> <<>>, extra |-> <<>>]

\* profile_from_value: of a key that comes again the last value counts; a key
\* that is not known is kept.
WithSetting(profile, setting) ==
    LET value == setting[2] IN
    CASE setting[1] = "name" -> [profile EXCEPT !.name = AsStr(value, "")]
      [] setting[1] = "sim" -> [profile EXCEPT !.sim = AsStr(value, "default")]
      [] setting[1] = "car" -> [profile EXCEPT !.car = AsStr(value, "default")]
      [] setting[1] = "api" ->
             [profile EXCEPT !.api = IF Kind(value) = "String" THEN {Body(value)} ELSE {}]
      [] setting[1] = "devices" ->
             [profile EXCEPT !.devices = [i \in DOMAIN Body(value) |-> Body(Body(value)[i])]]
      [] OTHER -> [profile EXCEPT !.extra = Append(@, setting)]
ProfileFromValue(value) == FoldLeft(WithSetting, NewProfile, Body(value))

AllGroups(value) == IsList(value) /\ \A i \in DOMAIN Body(value) : Kind(Body(value)[i]) = "Group"
IsProfile(value) ==
    \A i \in DOMAIN Body(value) :
        Body(value)[i][1] = "devices" => AllGroups(Body(value)[i][2])
IsConfig(root) ==
    \A i \in DOMAIN Body(root) :
        Body(root)[i][1] = "configs" =>
            /\ AllGroups(Body(root)[i][2])
            /\ \A j \in DOMAIN Body(Body(root)[i][2]) : IsProfile(Body(Body(root)[i][2])[j])

\* from_value: lists of profiles are put together, and none is one.
FromValue(root) ==
    LET lists == SelectSeq(Body(root), LAMBDA s : s[1] = "configs")
        groups == FlattenSeq([i \in DOMAIN lists |-> Body(lists[i][2])])
        profiles == [i \in DOMAIN groups |-> ProfileFromValue(groups[i])]
    IN [profiles |-> IF profiles = <<>> THEN <<NewProfile>> ELSE profiles,
        extra |-> GroupRemove(Body(root), "configs")]

FaultProfileToValue(profile) ==
    Group(<<Setting("name", String(profile.name)), Setting("sim", String(profile.sim)),
            Setting("car", String(profile.car)),
            Setting("devices",
                    List([i \in DOMAIN profile.devices |-> Group(profile.devices[i])]))>>)

\* profile_to_value: what is known is put into what is not.
ProfileToValue(profile) ==
    LET named == IF profile.name = "" THEN GroupRemove(profile.extra, "name")
                 ELSE GroupSet(profile.extra, "name", String(profile.name))
        based == GroupSet(GroupSet(named, "sim", String(profile.sim)), "car", String(profile.car))
        complete == IF profile.api = {} THEN GroupRemove(based, "api")
                    ELSE GroupSet(based, "api", String(CHOOSE api \in profile.api : TRUE))
    IN Group(GroupSet(complete, "devices",
                      List([i \in DOMAIN profile.devices |-> Group(profile.devices[i])])))

ToValue(config) ==
    Group(GroupSet(config.extra, "configs",
                   List([i \in DOMAIN config.profiles |-> ProfileToValue(config.profiles[i])])))

\* parse_cargopit
Readable(text) ==
    LET document == ParseDocument(text) IN document.ok /\ IsConfig(document.value)
ConfigOf(text) == FromValue(ParseDocument(text).value)
=============================================================================
