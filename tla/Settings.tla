------------------------------ MODULE Settings ------------------------------
(***************************************************************************)
(* SettingUtils: what the programs ask of the parsed settings, and the     *)
(* getters of Json they use, each of which has a default for a value of    *)
(* another type.  A Json is a pair of tag and value, an object's value a   *)
(* function from its keys.  The parser makes every number a FLOAT; here    *)
(* one is kept in tenths.                                                  *)
(***************************************************************************)
EXTENDS Integers, Sequences

JsonNil == <<"nil", <<>>>>
JsonString(text) == <<"string", text>>
JsonNumber(tenths) == <<"float", tenths>>
JsonArray(values) == <<"array", values>>
JsonObject(members) == <<"object", members>>

Tag(js) == js[1]
Val(js) == js[2]

\* Value::objectValue, arrayValue, stringValue and intValue; a conversion to
\* int32_t drops the fraction.
ObjectValue(js) == IF Tag(js) = "object" THEN Val(js) ELSE <<>>
ArrayValue(js) == IF Tag(js) = "array" THEN Val(js) ELSE <<>>
StringValue(js, null) == IF Tag(js) = "string" THEN Val(js) ELSE null
IntValue(js) ==
    IF Tag(js) # "float" THEN 0
    ELSE IF Val(js) >= 0 THEN Val(js) \div 10 ELSE -((-Val(js)) \div 10)

\* __CHECK_OBJECT_AND_RETURN__.
Found(js, item) == Tag(js) # "nil" /\ item \in DOMAIN ObjectValue(js)

\* The macros for strings and numbers; null is the empty string.
StringSetting(js, item, null) ==
    IF Found(js, item) THEN StringValue(ObjectValue(js)[item], null) ELSE null

IntSetting(js, item, default) ==
    IF Found(js, item) THEN IntValue(ObjectValue(js)[item]) ELSE default

\* getMethod.
MethodSetting(js, null) ==
    IF Found(js, "method")
    THEN LET items == ArrayValue(ObjectValue(js)["method"])
         IN  [i \in DOMAIN items |-> StringValue(items[i], null)]
    ELSE <<>>

\* checkUser: at("user") throws where there is no such member.  A variant:
\* any password will do.
UserMapThrows(js) == Tag(js) # "nil" /\ "user" \notin DOMAIN ObjectValue(js)

UserMap(js) == IF Found(js, "user") THEN ObjectValue(ObjectValue(js)["user"]) ELSE <<>>

CheckUserName(js, user, pwd) == user \in DOMAIN UserMap(js)
CheckUser(js, user, pwd) ==
    user \in DOMAIN UserMap(js) /\ UserMap(js)[user] = JsonString(pwd)
=============================================================================
