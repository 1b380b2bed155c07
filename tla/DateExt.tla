------------------------------- MODULE DateExt -------------------------------
(***************************************************************************)
(* The emitted module of the date run:                                     *)
(* corpus/runs/date/binding/build-emit/binding.gen.cpp.                    *)
(*                                                                         *)
(* A free operator of two types is defined on the class of its left        *)
(* operand, and reflected on the class of its right one with the operands  *)
(* exchanged; parameters are written here self first, as Python sees them. *)
(* Printing (__str__) is left out.                                         *)
(***************************************************************************)
EXTENDS Overloads

YearDefs ==
    Ctors("year", << <<>>, <<"int">>, <<"year">> >>)
    \o InPlace("year", "years")
    \o Getters("year", << <<"__neg__", "year">>, <<"__pos__", "year">>,
                          <<"is_leap", "bool">>, <<"__int__", "int">>, <<"ok", "bool">> >>)
    \o Statics(<<"min", "max">>, "year")
    \o Binary("__truediv__", "year",
              << <<"month", "year_month">>, <<"int", "year_month">>,
                 <<"month_day", "year_month_day">>,
                 <<"month_day_last", "year_month_day_last">>,
                 <<"month_weekday", "year_month_weekday">>,
                 <<"month_weekday_last", "year_month_weekday_last">> >>)
    \o Binary("__rtruediv__", "year",
              << <<"month_day", "year_month_day">>,
                 <<"month_day_last", "year_month_day_last">>,
                 <<"month_weekday", "year_month_weekday">>,
                 <<"month_weekday_last", "year_month_weekday_last">> >>)
    \o Compare("year", Rel6)
    \o Binary("__add__", "year", << <<"years", "year">> >>)
    \o Binary("__radd__", "year", << <<"years", "year">> >>)
    \o Binary("__sub__", "year", << <<"years", "year">>, <<"year", "years">> >>)

MonthDefs ==
    Ctors("month", << <<>>, <<"int">>, <<"month">> >>)
    \o InPlace("month", "months")
    \o Getters("month", << <<"__int__", "int">>, <<"ok", "bool">> >>)
    \o Binary("__rtruediv__", "month",
              << <<"year", "year_month">>, <<"day", "month_day">>,
                 <<"last_spec", "month_day_last">>,
                 <<"weekday_indexed", "month_weekday">>,
                 <<"weekday_last", "month_weekday_last">> >>)
    \o Binary("__truediv__", "month",
              << <<"day", "month_day">>, <<"int", "month_day">>,
                 <<"last_spec", "month_day_last">>,
                 <<"weekday_indexed", "month_weekday">>,
                 <<"weekday_last", "month_weekday_last">> >>)
    \o Compare("month", Rel6)
    \o Binary("__add__", "month", << <<"months", "month">> >>)
    \o Binary("__radd__", "month", << <<"months", "month">> >>)
    \o Binary("__sub__", "month", << <<"months", "month">>, <<"month", "months">> >>)

DayDefs ==
    Ctors("day", << <<>>, <<"int">>, <<"day">> >>)
    \o InPlace("day", "days")
    \o Getters("day", << <<"__int__", "int">>, <<"ok", "bool">> >>)
    \o Binary("__truediv__", "day", << <<"month", "month_day">>, <<"int", "month_day">> >>)
    \o Binary("__rtruediv__", "day",
              << <<"month", "month_day">>, <<"int", "month_day">>,
                 <<"year_month", "year_month_day">> >>)
    \o Compare("day", Rel6)
    \o Binary("__add__", "day", << <<"days", "day">> >>)
    \o Binary("__radd__", "day", << <<"days", "day">> >>)
    \o Binary("__sub__", "day", << <<"days", "day">>, <<"day", "days">> >>)

WeekdayDefs ==
    Ctors("weekday", << <<>>, <<"int">>, <<"sys_days">>, <<"local_days">>, <<"weekday">> >>)
    \o InPlace("weekday", "days")
    \o Getters("weekday", << <<"ok", "bool">>, <<"c_encoding", "int">>,
                             <<"iso_encoding", "int">> >>)
    \o Binary("__getitem__", "weekday", << <<"int", "weekday_indexed">>,
                                           <<"last_spec", "weekday_last">> >>)
    \o Compare("weekday", Eq2)
    \o Binary("__add__", "weekday", << <<"days", "weekday">> >>)
    \o Binary("__radd__", "weekday", << <<"days", "weekday">> >>)
    \o Binary("__sub__", "weekday", << <<"days", "weekday">>, <<"weekday", "days">> >>)

YearMonthDefs ==
    Ctors("year_month", << <<>>, <<"year", "month">>, <<"year_month">> >>)
    \o Getters("year_month", << <<"year", "year">>, <<"month", "month">>, <<"ok", "bool">> >>)
    \o InPlace("year_month", "months") \o InPlace("year_month", "years")
    \o Binary("__truediv__", "year_month",
              << <<"day", "year_month_day">>, <<"int", "year_month_day">>,
                 <<"last_spec", "year_month_day_last">>,
                 <<"weekday_indexed", "year_month_weekday">>,
                 <<"weekday_last", "year_month_weekday_last">> >>)
    \o Compare("year_month", Rel6)
    \o Binary("__sub__", "year_month", << <<"year_month", "months">>,
                                          <<"years", "year_month">> >>)
    \o Binary("__add__", "year_month", << <<"years", "year_month">> >>)
    \o Binary("__radd__", "year_month", << <<"years", "year_month">> >>)

MonthDayDefs ==
    Ctors("month_day", << <<>>, <<"month", "day">>, <<"month_day">> >>)
    \o Getters("month_day", << <<"month", "month">>, <<"day", "day">>, <<"ok", "bool">> >>)
    \o Binary("__rtruediv__", "month_day", << <<"year", "year_month_day">>,
                                              <<"int", "year_month_day">> >>)
    \o Binary("__truediv__", "month_day", << <<"year", "year_month_day">>,
                                             <<"int", "year_month_day">> >>)
    \o Compare("month_day", Rel6)

YearMonthDayDefs ==
    Ctors("year_month_day",
          << <<>>, <<"year", "month", "day">>, <<"year_month_day_last">>,
             <<"sys_days">>, <<"local_days">>, <<"year_month_day">> >>)
    \o InPlace("year_month_day", "months") \o InPlace("year_month_day", "years")
    \o Getters("year_month_day", << <<"year", "year">>, <<"month", "month">>,
                                    <<"day", "day">>, <<"ok", "bool">> >>)
    \o Compare("year_month_day", Rel6)
    \o Binary("__add__", "year_month_day", << <<"years", "year_month_day">> >>)
    \o Binary("__radd__", "year_month_day", << <<"years", "year_month_day">> >>)
    \o Binary("__sub__", "year_month_day", << <<"years", "year_month_day">> >>)

DateFunctions ==
    << Def("ymd_to_serial", <<"year_month_day">>, "int"),
       Def("serial_to_ymd", <<"int">>, "year_month_day"),
       Def("weekday_of", <<"year_month_day">>, "weekday"),
       Def("format_ymd", <<"str", "year_month_day">>, "str"),
       Def("format_weekday", <<"str", "weekday">>, "str") >>

DateCalls == << "year", "month", "day", "weekday", "year_month", "month_day",
                "year_month_day" >>

date_ext ==
    [ classes |-> [c \in ToSet(DateCalls) |-> Class(c, "date_" \o c, <<>>)],
      vectors |-> <<>>,
      calls   |-> DateCalls,
      defs    |-> [ year |-> YearDefs, month |-> MonthDefs, day |-> DayDefs,
                    weekday |-> WeekdayDefs, year_month |-> YearMonthDefs,
                    month_day |-> MonthDayDefs, year_month_day |-> YearMonthDayDefs,
                    module |-> DateFunctions ] ]
=============================================================================
