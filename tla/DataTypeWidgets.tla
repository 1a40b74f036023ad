--------------------------- MODULE DataTypeWidgets ---------------------------
(***************************************************************************)
(* What the property classes of src/src/data/properties and the widgets    *)
(* of src/src/ui/datatypes do with a value: which data types they accept,  *)
(* how a list of the device limits them, what they show of a value, and    *)
(* when they send one.  Every class is a record of the traits in which the *)
(* classes differ; DeviceConfig runs them.                                 *)
(*                                                                         *)
(* Values are the numbers 0 .. MaxValue, whatever their data type.  A type *)
(* in Rounded is shown with few digits: two neighbours have the same text. *)
(***************************************************************************)
EXTENDS Integers, FiniteSetsExt

CONSTANTS
    MaxValue,      \* the largest value of a config key
    DefaultMax     \* the largest value of a box whose range nobody set

ASSUME RangeAssumption == DefaultMax \in Nat /\ MaxValue \in Nat /\ DefaultMax < MaxValue

Values == 0 .. MaxValue
None == MaxValue + 1          \* nothing shown, nothing typed

-----------------------------------------------------------------------------
(* The property classes.  "lists" is what list_config() reads: a range     *)
(* (min, max, step), a list of values, or nothing.  "unread" is what       *)
(* value() returns when the driver cannot be read: an uninitialized        *)
(* number, an empty string, or an exception.  "meta" is what is left of a  *)
(* value that came in a meta packet.                                       *)
BoolProperty             == [lists |-> "nothing", unread |-> "any",    meta |-> "value"]
Int32Property            == [lists |-> "range",   unread |-> "any",    meta |-> "value"]
DoubleProperty           == [lists |-> "range",   unread |-> "any",    meta |-> "value"]
StringProperty           == [lists |-> "values",  unread |-> "empty",  meta |-> "value"]
RationalProperty         == [lists |-> "values",  unread |-> "throws", meta |-> "value"]
DoubleRangeProperty      == [lists |-> "values",  unread |-> "throws", meta |-> "value"]
UInt64RangeProperty      == [lists |-> "values",  unread |-> "throws", meta |-> "value"]
\* on_value_changed() reads the pair as if it were a string, which is empty.
MeasuredQuantityProperty == [lists |-> "values",  unread |-> "any",    meta |-> "empty"]
UInt64Property           == [lists |-> "values",  unread |-> "any",    meta |-> "value"]

\* Configurable::init(): the class that is made for a data type.
PropertyOf ==
    [Bool |-> BoolProperty, Int32 |-> Int32Property, UInt64 |-> UInt64Property,
     Double |-> DoubleProperty, String |-> StringProperty, MQ |-> MeasuredQuantityProperty,
     RationalPeriod |-> RationalProperty, RationalVolt |-> RationalProperty,
     UInt64Range |-> UInt64RangeProperty, DoubleRange |-> DoubleRangeProperty]

DataTypes == DOMAIN PropertyOf

\* UInt64Property::list_config(): the list of a sample rate is a range or
\* values, the one of a sample interval is read and dropped.
ListOf(key, type) ==
    CASE type = "UInt64" /\ key = "Samplerate" -> {"range", "values"}
      [] type = "UInt64" /\ key = "SampleInterval" -> {"dropped"}
      [] OTHER -> {PropertyOf[type].lists} \ {"nothing"}

\* UInt64Property::change_value(): a sample rate is limited to 20 kHz.
SampleRateLimit == DefaultMax

Sent(key, value) ==
    IF key = "Samplerate" /\ value > SampleRateLimit THEN SampleRateLimit ELSE value

-----------------------------------------------------------------------------
(* The widgets.  "shows" is what remains of a value: the number within the *)
(* range of a box, the item of a list with the same text, or the value.    *)
(* "commits" says when the widget calls change_value(): at every change of *)
(* what it shows, at the end of an edit, or never.  "quiet" holds when     *)
(* on_value_changed() cuts the connection to the property while it shows   *)
(* the value, so that the change is not sent back.                         *)
\* Mutant: the slider does not cut its connection.
DoubleSliderEchoes ==
    [types |-> {"Double"}, shows |-> "range", commits |-> "change", quiet |-> FALSE]

BoolButton      == [types |-> {"Bool"},   shows |-> "value", commits |-> "change", quiet |-> TRUE]
BoolCheckBox    == [types |-> {"Bool"},   shows |-> "value", commits |-> "change", quiet |-> TRUE]
BoolLed         == [types |-> {"Bool"},   shows |-> "value", commits |-> "never",  quiet |-> TRUE]
DoubleDisplay   == [types |-> {"Double"}, shows |-> "value", commits |-> "never",  quiet |-> TRUE]
DoubleKnob      == [types |-> {"Double"}, shows |-> "range", commits |-> "change", quiet |-> TRUE]
DoubleSlider    == [types |-> {"Double"}, shows |-> "range", commits |-> "change", quiet |-> TRUE]
DoubleSpinBox   == [types |-> {"Double"}, shows |-> "range", commits |-> "finish", quiet |-> TRUE]
Int32SpinBox    == [types |-> {"Int32"},  shows |-> "range", commits |-> "finish", quiet |-> TRUE]
UInt64SpinBox   == [types |-> {"UInt64"}, shows |-> "range", commits |-> "finish", quiet |-> TRUE]
UInt64ComboBox  == [types |-> {"UInt64"}, shows |-> "item",  commits |-> "change", quiet |-> TRUE]
UInt64Label     == [types |-> {"UInt64"}, shows |-> "value", commits |-> "never",  quiet |-> TRUE]
StringComboBox  == [types |-> {"String"}, shows |-> "item",  commits |-> "change", quiet |-> TRUE]
StringLabel     == [types |-> {"String"}, shows |-> "value", commits |-> "never",  quiet |-> TRUE]
StringLed       == [types |-> {"String"}, shows |-> "value", commits |-> "never",  quiet |-> TRUE]
RationalComboBox ==
    [types |-> {"RationalPeriod", "RationalVolt"}, shows |-> "item", commits |-> "change", quiet |-> TRUE]
DoubleRangeComboBox ==
    [types |-> {"DoubleRange"}, shows |-> "item", commits |-> "change", quiet |-> TRUE]
UInt64RangeComboBox ==
    [types |-> {"UInt64Range"}, shows |-> "item", commits |-> "change", quiet |-> TRUE]
MeasuredQuantityComboBox ==
    [types |-> {"MQ"}, shows |-> "item", commits |-> "change", quiet |-> TRUE]

\* The group boxes are made of widgets for the same property.
DoubleControl      == {"DoubleDisplay", "DoubleSpinBox", "DoubleSlider"}
DoubleSmallControl == {"DoubleKnob", "DoubleSpinBox"}
ThresholdControl   == [value |-> {"DoubleSpinBox"}, enable |-> {"BoolButton"}]

Class ==
    [BoolButton |-> BoolButton, BoolCheckBox |-> BoolCheckBox, BoolLed |-> BoolLed,
     DoubleDisplay |-> DoubleDisplay, DoubleKnob |-> DoubleKnob, DoubleSlider |-> DoubleSlider,
     DoubleSpinBox |-> DoubleSpinBox, Int32SpinBox |-> Int32SpinBox,
     UInt64SpinBox |-> UInt64SpinBox, UInt64ComboBox |-> UInt64ComboBox,
     UInt64Label |-> UInt64Label, StringComboBox |-> StringComboBox,
     StringLabel |-> StringLabel, StringLed |-> StringLed,
     RationalComboBox |-> RationalComboBox, DoubleRangeComboBox |-> DoubleRangeComboBox,
     UInt64RangeComboBox |-> UInt64RangeComboBox,
     MeasuredQuantityComboBox |-> MeasuredQuantityComboBox]

\* get_widget_for_property(): the widget of the generic control view.
WidgetFor(type, list) ==
    CASE type = "Int32" -> "Int32SpinBox"
      [] type = "UInt64" -> IF list = "values" THEN "UInt64ComboBox" ELSE "UInt64SpinBox"
      [] type = "Double" -> "DoubleSpinBox"
      [] type \in {"RationalPeriod", "RationalVolt"} -> "RationalComboBox"
      [] type = "String" -> "StringComboBox"
      [] type = "Bool" -> "BoolCheckBox"
      [] type = "MQ" -> "MeasuredQuantityComboBox"
      [] type = "DoubleRange" -> "DoubleRangeComboBox"
      [] type = "UInt64Range" -> "UInt64RangeComboBox"

-----------------------------------------------------------------------------
(* What a widget shows.  A property p is a record with the fields type,    *)
(* list ("none" when it is not listable) and init, the value it had when   *)
(* its view was opened.                                                    *)
Rounded == {"UInt64", "RationalPeriod", "RationalVolt"}

\* to_string(): the text of a value.
Text(type, value) == IF type \in Rounded THEN value \div 2 ELSE value

\* The range of a box: the one of the device, the one Qt gives a box nobody
\* sets, or {0}: the maximum of an unsigned 64 bit number is -1 as an int.
BoxRange(class, p) ==
    IF p.list = "range" THEN Values
    ELSE IF class = "UInt64SpinBox" /\ p.list \in {"values", "dropped"} THEN {0}
    ELSE 0 .. DefaultMax

InRange(class, p, value) == Min({value, Max(BoxRange(class, p))})

\* The items of a combo box: the list of the device, or the value that was
\* read when the box was made.
Listed == {0, MaxValue - 1, MaxValue}
Items(p) == IF p.list = "values" THEN Listed ELSE {p.init} \cap Values

\* A string without a list is edited as text, and takes every value.
Editable(class, p) == class = "StringComboBox" /\ p.list = "none"

\* setCurrentText(): the first item with this text, if there is one.
ItemFor(class, p, old, value) ==
    LET same == {i \in Items(p) : Text(p.type, i) = Text(p.type, value)}
    IN  IF Editable(class, p) THEN value
        ELSE IF same = {} THEN old ELSE Min(same)

\* on_value_changed(): what the widget shows of a value, it showed "old".
Shows(class, p, old, value) ==
    CASE Class[class].shows = "range" -> InRange(class, p, value)
      [] Class[class].shows = "item"  -> ItemFor(class, p, old, value)
      [] OTHER -> value

\* The value a widget sends when it shows "shown": an editable combo box
\* sends the data of its current item, which it does not have.
Commits(class, p, shown) == IF Editable(class, p) THEN 0 ELSE shown
=============================================================================
