------------------------------- MODULE Settings -------------------------------
(***************************************************************************)
(* core/settings: a Settings object, its conversion to JSON and back.      *)
(* The order of keys_ is left out: a JSON object sorts its keys.           *)
(*                                                                         *)
(* A value is tagged with the alternative its std::variant holds.  Numbers *)
(* are ranks: 0 is zero, 1 the smallest number above it that an editor     *)
(* accepts, 2 an ordinary number, 3 one larger still.                      *)
(***************************************************************************)
EXTENDS Integers, FiniteSets

Numbers  == 0 .. 3
Ordinary == 2

GenerationMethods == {"NormalSphere", "UniformCube", "UniformSphere", "PlummerSphere",
                      "SpiralGalaxy", "CollisionModel", "File"}
SimulationMethods == {"Euler", "Leapfrog", "Hermite", "Hits", "BarnesHutLeapfrog"}

\* A key is the method it belongs to and the name of a parameter.
General(name) == <<"General", name>>
GenerationMethod == General("GenerationMethod")
SimulationMethod == General("SimulationMethod")
MethodKeys  == {GenerationMethod, SimulationMethod}
RealKeys    == {General(name) : name \in {"Duration", "SystemDataStep", "DiagnosticsDataStep"}}
FlagKeys    == {General(name) : name \in {"SaveSystemData", "SaveDiagnosticsData", "SaveSettings"}}
GeneralKeys == MethodKeys \cup RealKeys \cup FlagKeys

Parameters ==
  [NormalSphere   |-> {"Seed", "ParticleCount", "PositionStdDev", "VelocityStdDev",
                       "MassMean", "MassStdDev"},
   UniformCube    |-> {"Seed", "ParticleCount", "SideLength", "InitialVelocity", "TotalMass"},
   UniformSphere  |-> {"Seed", "ParticleCount", "Radius", "InitialVelocity", "TotalMass"},
   PlummerSphere  |-> {"Seed", "ParticleCount", "Radius", "InitialVelocity", "TotalMass"},
   SpiralGalaxy   |-> {"Seed", "ParticleCount", "NumArms", "Radius", "TotalMass", "Twist",
                       "BlackHoleMass"},
   CollisionModel |-> {"Seed", "ImpactParameter", "RelativeVelocity",
                       "ParticleCount1", "SphereRadius1", "TotalMass1",
                       "ParticleCount2", "SphereRadius2", "TotalMass2"},
   File           |-> {"FilePath"},
   Euler          |-> {"TimeStep", "Softening"},
   Leapfrog       |-> {"TimeStep", "Softening"},
   Hermite        |-> {"TimeStep", "Softening"},
   Hits           |-> {"TimeStepParam", "Softening"},
   BarnesHutLeapfrog |-> {"TimeStep", "ThetaMac", "Softening"}]

Methods == GenerationMethods \cup SimulationMethods
KeysOf(m) == {<<m, p>> : p \in Parameters[m]}

\* SettingKeyStrings: the keys that have a name, hence those a file may hold.
SettingKeys == GeneralKeys \cup UNION {KeysOf(m) : m \in Methods}
-----------------------------------------------------------------------------
Variant(type, value) == [type |-> type, value |-> value]
IsA(type, v) == v.type = type

\* A std::optional without a value.
Nothing == [nullopt |-> TRUE]

Object(values) == [keys |-> DOMAIN values, values |-> values]
Empty == Object([k \in {} |-> 0])

Has(s, key) == key \in DOMAIN s.values

\* get<T>(key) returns: otherwise at() or std::get throws.
Gets(s, key, type) == Has(s, key) /\ IsA(type, s.values[key])
Get(s, key) == s.values[key].value

Override(f, g) == [k \in DOMAIN f \cup DOMAIN g |-> IF k \in DOMAIN g THEN g[k] ELSE f[k]]

Merge(s, other) ==
  [keys   |-> s.keys \cup other.keys,
   values |-> Override(s.values, [k \in other.keys |-> other.values[k]])]
-----------------------------------------------------------------------------
Json(type) == CASE type = "int" -> "integer" [] type = "double" -> "float"
                [] type = "bool" -> "boolean" [] OTHER -> "string"

\* Faulty variant: a double without a fraction is written as an integer.
ToJsonShortest(s) ==
  [k \in s.keys |-> [json  |-> IF IsA("double", s.values[k]) THEN "integer"
                               ELSE Json(s.values[k].type),
                     value |-> s.values[k].value]]

ToJson(s) == [k \in s.keys |-> [json |-> Json(s.values[k].type), value |-> s.values[k].value]]

MethodsNamedBy(key) == IF key = GenerationMethod THEN GenerationMethods ELSE SimulationMethods

\* What create() makes of one entry: a method by its name, anything else by
\* the type the JSON value has.
FromJson(key, entry) ==
  IF key \in MethodKeys
  THEN IF entry.json = "string" /\ entry.value \in MethodsNamedBy(key)
       THEN Variant(key[2], entry.value) ELSE Nothing
  ELSE CASE entry.json = "integer" -> Variant("int", entry.value)
         [] entry.json = "float"   -> Variant("double", entry.value)
         [] entry.json = "boolean" -> Variant("bool", entry.value)
         [] entry.json = "string"  -> Variant("string", entry.value)
         [] OTHER -> Nothing

\* A number out of range (huge): the JSON library throws an exception that
\* FileParser::parseSettings does not catch.
ParseThrows(json) == \E k \in DOMAIN json : json[k].json = "huge"

\* FileParser::parseSettings otherwise: one unknown key, unknown method or unsupported
\* type refuses the whole file.
CreateFromJson(json) ==
  LET values == [k \in DOMAIN json |-> FromJson(k, json[k])]
  IN  IF DOMAIN json \subseteq SettingKeys /\ \A k \in DOMAIN json : values[k] # Nothing
      THEN Object(values) ELSE Nothing
=============================================================================
